---- MODULE Spec2Model ----
(***************************************************************************)
(* The alert store (app/lib/services/alertService.ts) and the console      *)
(* error pipeline with its dedup caches (utils/shell: processConsoleErrors)*)
(* as one state machine.                                                   *)
(*                                                                         *)
(* Arrays and Maps of the source are sequences: a Map is the sequence of   *)
(* its <<key, value>> entries in insertion order, which is the order      *)
(* Array.from(map.entries()) yields and the order a stable sort keeps for  *)
(* equal keys.  Indices are 1-based; an absent index is 0 where the source *)
(* has -1.                                                                 *)
(*                                                                         *)
(* A text is a sequence of tokens.  "MNF" is the phrase                    *)
(* "Module not found: Can't resolve", "CFM" is "Cannot find module", a     *)
(* token of QuotedNames is a quoted module name such as 'a', any other     *)
(* token is other text.                                                    *)
(***************************************************************************)
EXTENDS Integers, Sequences, FiniteSets, TLC

(***************************************************************************)
(* Sizes.  The source's capacities (20 active alerts, 50 history entries,  *)
(* 100/50 tier entries, 50/25 context entries, 5 contexts, 150/300/100     *)
(* characters) are scaled down, keeping their order; the time windows are  *)
(* the source's, in milliseconds.                                          *)
(***************************************************************************)
maxActiveAlerts == 2
maxHistorySize == 3
MaxCreated == 4
MaxCalls == 4
MaxTime == 6000
TickMs == 1000

TierMaxEntries == 3
TierKeepEntries == 2
RecentMaxEntries == 3
RecentKeepEntries == 2
ContextMaxEntries == 2
ContextKeepEntries == 1
MaxContexts == 2
SignatureLen == 3
ContextLen == 4
ContextPrefixLen == 2

\* the preview host's scenario: its clock step, its horizon and its chunks
StepMs == 150
MaxShortTime == 900
MaxChunks == 3
MaxMessages == 2
MaxCommands == 2

\* the shell's scenario: the chunks the stream yields, its horizon, and the
\* detector's own cache (50/20 in the source)
MaxOutput == 2
MaxShellTime == 1400
DetectorMaxEntries == 2
DetectorKeepEntries == 1

\* the component's scenario: the alerts it is given and its horizon
MaxShown == 2
MaxDismissTime == 6400

ModuleWindowMs == 5000
SignatureWindowMs == 1000
RecentWindowMs == 2000
DebounceDelayMs == 300
ExceptionWindowMs == 5000
DetectorIntervalMs == 200
DetectorWindowMs == 3000
AutoDismissMs == 5000
DismissAnimationMs == 300

VARIABLES
  activeAlerts,         \* AlertService._activeAlerts: the atom's value
  alertHistory,         \* AlertService._alertHistory, newest first
  created,              \* number of alerts createAlert has built so far
  notified,             \* values the atom passed to its listeners during the last call
  recentModuleErrors,   \* AlertService._recentModuleErrors
  lastProcessedErrors,  \* processConsoleErrors.lastProcessedErrors (coarse tier)
  moduleErrorCache,     \* processConsoleErrors.moduleErrorCache (module tier)
  errorContextCache,    \* processConsoleErrors.errorContextCache
  now,                  \* Date.now()
  calls,                \* number of pipeline calls made so far
  lastOp,               \* the last call: its name, arguments and outcome
  timers,               \* the pending setTimeout callbacks of the preview host
  errorProcessingTimeout, \* webcontainer/index.ts: the handle debouncedProcessErrors keeps
  processedModuleErrors,  \* webcontainer/index.ts: the exception signatures seen, with their times
  dispatched,           \* the 'bolt:alert' events dispatched on window, in order
  submitted,            \* the chunks handed in so far: text, time and stream of each
  accumulatedOutput,    \* BoltShell.#accumulatedOutput: the chunks read so far, each with its command
  executionState,       \* BoltShell.executionState: the running command and whether it is active
  previousOutput,       \* executeCommand: what the error detector has looked at
  detectorErrors,       \* executeCommand: the detector's own lastProcessedErrors map
  handedOver,           \* the contents the detector gave to processConsoleErrors, in order
  dismissingIds,        \* ChatAlert: the alerts whose dismissal is running
  dismissTimers,        \* ChatAlert.handleDismiss: the pending 300 ms callbacks
  autoDismissTimers,    \* ChatAlert: the timers of the auto-dismiss effect
  firstShown            \* when ChatAlert first rendered each alert

vars == <<activeAlerts, alertHistory, created, notified, recentModuleErrors,
          lastProcessedErrors, moduleErrorCache, errorContextCache, now, calls, lastOp,
          timers, errorProcessingTimeout, processedModuleErrors, dispatched, submitted,
          accumulatedOutput, executionState, previousOutput, detectorErrors, handedOver,
          dismissingIds, dismissTimers, autoDismissTimers, firstShown>>

shellVars == <<accumulatedOutput, executionState, previousOutput, detectorErrors, handedOver>>

chatVars == <<dismissingIds, dismissTimers, autoDismissTimers, firstShown>>

previewVars == <<timers, errorProcessingTimeout, processedModuleErrors, dispatched, submitted>>

cacheVars == <<lastProcessedErrors, moduleErrorCache, errorContextCache>>

(***************************************************************************)
(* Values                                                                  *)
(***************************************************************************)
\* a field the caller leaves out (undefined)
Undefined == -1
\* the empty string as an id
EmptyId == 0
NoSeverity == "undefined"
Severities == {"info", "warning", "error", "critical"}
\* ids callers supply themselves
CallerIds == {1}
\* timestamps callers supply themselves
CallerTimestamps == {500}

\* uuidv4(): a fresh id, different from every caller id and every earlier uuid
uuidv4(n) == 100 + n

\* an optional field of the caller's data: <<>> when left out, <<v>> when given
Missing == <<>>
Given(v) == <<v>>

NoAlert == [id |-> Undefined, type |-> "none", severity |-> NoSeverity,
            timestamp |-> Undefined, actionable |-> TRUE, source |-> "none",
            suggestedAction |-> Missing, moduleName |-> "", seq |-> 0]

(***************************************************************************)
(* Array helpers                                                           *)
(***************************************************************************)
\* Array.prototype.splice(index, 1) at the 1-based index i
Splice(s, i) == SubSeq(s, 1, i - 1) \o SubSeq(s, i + 1, Len(s))

\* Array.prototype.slice(0, n) and String.prototype.substring(0, n)
Slice(s, n) == SubSeq(s, 1, IF n < Len(s) THEN n ELSE Len(s))

(***************************************************************************)
(* AlertService                                                            *)
(***************************************************************************)
NotCriticalWhatever(a) == TRUE

\* (a) => a.severity !== 'critical'
NotCritical(a) == a.severity # "critical"

\* the alert object createAlert builds from the caller's data
BuildAlert(alertData, n, t) ==
  [id         |-> IF alertData.id \in {Undefined, EmptyId} THEN uuidv4(n) ELSE alertData.id,
   type       |-> alertData.type,
   severity   |-> IF alertData.severity = NoSeverity THEN "error" ELSE alertData.severity,
   timestamp  |-> IF alertData.timestamp \in {Undefined, 0} THEN t ELSE alertData.timestamp,
   actionable |-> IF alertData.actionable = Missing THEN TRUE ELSE alertData.actionable[1],
   source     |-> alertData.source,
   suggestedAction |-> alertData.suggestedAction,
   moduleName |-> alertData.moduleName,
   seq        |-> n]

addToHistoryOldestFirst(history, alert) ==
  LET pushed == Append(history, alert)
  IN  IF Len(pushed) > maxHistorySize THEN Slice(pushed, maxHistorySize) ELSE pushed

addToHistory(history, alert) ==
  LET unshifted == <<alert>> \o history
  IN  IF Len(unshifted) > maxHistorySize THEN Slice(unshifted, maxHistorySize) ELSE unshifted

AtCapacityOffByOne(currentAlerts) == Len(currentAlerts) > maxActiveAlerts

\* currentAlerts.length >= this._maxActiveAlerts
AtCapacity(currentAlerts) == Len(currentAlerts) >= maxActiveAlerts

IndexToRemoveLast(currentAlerts) ==
  IF \E i \in 1..Len(currentAlerts) : NotCritical(currentAlerts[i])
  THEN CHOOSE i \in 1..Len(currentAlerts) :
         NotCritical(currentAlerts[i]) /\ \A j \in (i + 1)..Len(currentAlerts) : ~NotCritical(currentAlerts[j])
  ELSE 0

\* currentAlerts.findIndex((a) => a.severity !== 'critical'), 1-based, 0 when
\* no alert passes
IndexToRemove(currentAlerts) ==
  IF \E i \in 1..Len(currentAlerts) : NotCritical(currentAlerts[i])
  THEN CHOOSE i \in 1..Len(currentAlerts) :
         NotCritical(currentAlerts[i]) /\ \A j \in 1..(i - 1) : ~NotCritical(currentAlerts[j])
  ELSE 0

KeepsOutNothing(currentAlerts, alert) == FALSE

\* all slots are critical and the new alert is not: it is kept out of the active set
KeepsOut(currentAlerts, alert) ==
  IndexToRemove(currentAlerts) = 0 /\ alert.severity # "critical"

ShiftNewest(currentAlerts) == SubSeq(currentAlerts, 1, Len(currentAlerts) - 1)

\* currentAlerts.shift()
Shift(currentAlerts) == Tail(currentAlerts)

\* The array _activeAlerts.get() returned to createAlert, as the call leaves
\* it: splice and shift work on that array itself, before the atom is set to
\* a new one.
currentAlertsAfter(currentAlerts, alert) ==
  IF ~AtCapacity(currentAlerts) THEN currentAlerts
  ELSE IF IndexToRemove(currentAlerts) > 0
       THEN Splice(currentAlerts, IndexToRemove(currentAlerts))
  ELSE IF alert.severity # "critical" THEN currentAlerts
  ELSE Shift(currentAlerts)

\* The store is [active, history, created, notified, returned]; createAlert
\* gives the store after the call, returned being the alert it returns.
createAlert(st, alertData, t) ==
  LET alert == BuildAlert(alertData, st.created + 1, t)
      currentAlerts == st.active
      atCapacity == AtCapacity(currentAlerts)
      indexToRemove == IndexToRemove(currentAlerts)
      rejected == atCapacity /\ KeepsOut(currentAlerts, alert)
      remaining == IF ~atCapacity THEN currentAlerts
                   ELSE IF indexToRemove > 0 THEN Splice(currentAlerts, indexToRemove)
                   ELSE Shift(currentAlerts)
      next == Append(remaining, alert)
  IN  IF rejected
      THEN [st EXCEPT !.history = addToHistory(@, alert),
                      !.created = @ + 1,
                      !.returned = alert]
      ELSE [st EXCEPT !.active = next,
                      !.notified = Append(@, next),
                      !.history = addToHistory(@, alert),
                      !.created = @ + 1,
                      !.returned = alert]

clearAlertSilently(st, alertId) ==
  [st EXCEPT !.active = IF alertId \in {Undefined, EmptyId}
                        THEN <<>>
                        ELSE SelectSeq(st.active, LAMBDA a : a.id # alertId)]

clearAlertAndHistory(st, alertId) ==
  LET keep(a) == a.id # alertId
      next == IF alertId \in {Undefined, EmptyId} THEN <<>> ELSE SelectSeq(st.active, keep)
  IN  [st EXCEPT !.active = next, !.notified = Append(@, next),
                 !.history = IF alertId \in {Undefined, EmptyId} THEN <<>> ELSE SelectSeq(@, keep)]

\* clearAlert(alertId): a falsy alertId (undefined or '') clears everything
clearAlert(st, alertId) ==
  LET next == IF alertId \in {Undefined, EmptyId}
              THEN <<>>
              ELSE SelectSeq(st.active, LAMBDA a : a.id # alertId)
  IN  [st EXCEPT !.active = next, !.notified = Append(@, next)]

currentAlertOldest(active) == IF Len(active) > 0 THEN active[1] ELSE NoAlert

\* currentAlert.get()
currentAlert(active) == IF Len(active) > 0 THEN active[Len(active)] ELSE NoAlert

\* the store and the caches at the start of a call
Store == [active |-> activeAlerts, history |-> alertHistory, created |-> created,
          notified |-> <<>>, returned |-> NoAlert,
          recent |-> recentModuleErrors, last |-> lastProcessedErrors,
          module |-> moduleErrorCache, context |-> errorContextCache]

SetStore(st) ==
  /\ activeAlerts' = st.active
  /\ alertHistory' = st.history
  /\ created' = st.created
  /\ notified' = st.notified
  /\ recentModuleErrors' = st.recent
  /\ lastProcessedErrors' = st.last
  /\ moduleErrorCache' = st.module
  /\ errorContextCache' = st.context

(***************************************************************************)
(* Map and string helpers                                                  *)
(***************************************************************************)
MapHas(m, k) == \E i \in 1..Len(m) : m[i][1] = k

MapGet(m, k) == m[CHOOSE i \in 1..Len(m) : m[i][1] = k][2]

\* Map.prototype.set: an existing key keeps its place, a new key goes last
MapSet(m, k, v) ==
  IF MapHas(m, k)
  THEN [i \in 1..Len(m) |-> IF m[i][1] = k THEN <<k, v>> ELSE m[i]]
  ELSE Append(m, <<k, v>>)

\* what the comparators sort by: b[1] - a[1] or b[1].count - a[1].count
ByTime == "time"
ByCount == "count"
RankByLastSeen(entry, by) == IF by = ByCount THEN entry[2].lastSeen ELSE entry[2]

Rank(entry, by) == IF by = ByCount THEN entry[2].count ELSE entry[2]

\* entries.sort((a, b) => rank(b) - rank(a)): descending and stable
SortDescending(m, by) ==
  LET position(i) == Cardinality({j \in 1..Len(m) : Rank(m[j], by) > Rank(m[i], by)})
                       + Cardinality({j \in 1..(i - 1) : Rank(m[j], by) = Rank(m[i], by)}) + 1
  IN  [r \in 1..Len(m) |-> m[CHOOSE i \in 1..Len(m) : position(i) = r]]

\* the compaction without its sort: the entries inserted first stay
CompactUnsorted(m, max, keep, by) ==
  IF Len(m) > max THEN Slice(m, keep) ELSE m

\* if (map.size > max) map = new Map(entries.sort(...).slice(0, keep))
Compact(m, max, keep, by) ==
  IF Len(m) > max THEN Slice(SortDescending(m, by), keep) ELSE m

\* String.prototype.includes for one token
Includes(text, token) == \E i \in 1..Len(text) : text[i] = token

\* String.prototype.includes for a run of tokens
IncludesRun(text, run) ==
  \E i \in 0..(Len(text) - Len(run)) : SubSeq(text, i + 1, i + Len(run)) = run

QuotedNames == {"'a'", "'b'", "'c'", "'d'", "'./m'"}

\* the capture group ([^']+) of a quoted name
NameOf(token) ==
  CASE token = "'a'" -> "a"
    [] token = "'b'" -> "b"
    [] token = "'c'" -> "c"
    [] token = "'d'" -> "d"
    [] token = "'./m'" -> "./m"
    [] OTHER -> ""

\* the positions where phrase is followed by a quoted name
Matches(text, phrase) ==
  {i \in 1..(Len(text) - 1) : text[i] = phrase /\ text[i + 1] \in QuotedNames}

Min(S) == CHOOSE x \in S : \A y \in S : x <= y

\* consoleOutput.match(/Module not found: Can't resolve '([^']+)'/), '' if none
moduleNameMatch(text) ==
  IF Matches(text, "MNF") = {} THEN "" ELSE NameOf(text[Min(Matches(text, "MNF")) + 1])

(***************************************************************************)
(* Classifier and grouper (utils/shell)                                    *)
(*                                                                         *)
(* Further tokens.  A token of FrameTokens is a stack frame "at x (file:   *)
(* line:col)".  "E404" is "npm ERR! code E404", "404NotFound" is "npm ERR! *)
(* 404 Not Found", "404" is "npm ERR! 404", "notInRegistry" is "is not in  *)
(* the npm registry", "ERESOLVE" is "npm ERR! code ERESOLVE", "Found:",    *)
(* "CouldNotResolve" and "peer" are the words of that report, "NMV" is     *)
(* "No matching version found for", "EACCES" is "npm ERR! code EACCES" and *)
(* "path" is "npm ERR! path".  A token of GoroutineHeaders is a line       *)
(* "goroutine <id> [running]:", a token of GoFrames a stack line naming a  *)
(* .go file, and the phrase sets below hold the error lines.               *)
(***************************************************************************)
\* the least index from `from` on where the text holds the token, 0 if none
IndexOf(text, token, from) ==
  IF \E i \in from..Len(text) : text[i] = token
  THEN Min({i \in from..Len(text) : text[i] = token})
  ELSE 0

\* a ModuleNotFoundError and a GoroutineError, in one shape
ModuleError(moduleName, filePath) ==
  [moduleName |-> moduleName, filePath |-> filePath, errorType |-> "", goroutineId |-> "", file |-> "",
   lineNumber |-> 0, columnNumber |-> 0, importType |-> ""]

GoroutineError(errorType, goroutineId, file) ==
  [moduleName |-> "", filePath |-> "", errorType |-> errorType, goroutineId |-> goroutineId, file |-> file,
   lineNumber |-> 0, columnNumber |-> 0, importType |-> ""]

FrameTokens == {"(f1:1:1)", "(f2:2:2)"}

\* the capture group ([^:]+) of a stack frame
FrameFile(token) ==
  CASE token = "(f1:1:1)" -> "f1"
    [] token = "(f2:2:2)" -> "f2"
    [] OTHER -> ""

\* the capture groups (\d+) of a stack frame, 0 where the source has no match
FrameLine(token) ==
  CASE token = "(f1:1:1)" -> 1
    [] token = "(f2:2:2)" -> 2
    [] OTHER -> 0

FrameColumn(token) ==
  CASE token = "(f1:1:1)" -> 1
    [] token = "(f2:2:2)" -> 2
    [] OTHER -> 0

\* output.match(linePattern): the first stack frame of the whole output, ""
\* for null
lineMatch(output) ==
  IF \E i \in 1..Len(output) : output[i] \in FrameTokens
  THEN output[Min({i \in 1..Len(output) : output[i] \in FrameTokens})]
  ELSE ""

\* the names that start with '.'
RelativeNames == {"./m"}

\* process(match, lineMatch) of the "Cannot find module" pattern
FoundModuleError(moduleName, frame) ==
  [ModuleError(moduleName, FrameFile(frame)) EXCEPT
     !.lineNumber = FrameLine(frame),
     !.columnNumber = FrameColumn(frame),
     !.importType = IF moduleName \in RelativeNames THEN "static" ELSE "dynamic"]

\* String.prototype.split('@') of a word
SplitAt(token) ==
  CASE token = "lodash@1.0.0" -> <<"lodash", "1.0.0">>
    [] token = "react@18" -> <<"react", "18">>
    [] token = "@my-scope/my-lib@2.0.0" -> <<"", "my-scope/my-lib", "2.0.0">>
    [] OTHER -> <<token>>

\* ([^\s@]+(@[^\s]+)?) matches the word: it does not start with '@'
Unscoped(token) == SplitAt(token)[1] # ""

\* ([^\s@]+)@([^\s]+) matches the word: a name, '@' and a version
Versioned(token) == Unscoped(token) /\ Len(SplitAt(token)) >= 2

RECURSIVE ScanFrom(_, _)
\* the records of the "Cannot find module '<name>'" matches, in order
ScanFrom(text, i) ==
  IF i >= Len(text) THEN <<>>
  ELSE IF text[i] = "CFM" /\ text[i + 1] \in QuotedNames
       THEN <<FoundModuleError(NameOf(text[i + 1]), lineMatch(text))>> \o ScanFrom(text, i + 2)
       ELSE ScanFrom(text, i + 1)

RECURSIVE ScanRegistry(_, _)
\* code E404 ... 404 Not Found ... 404 <name[@version]> is not in the npm registry
ScanRegistry(text, from) ==
  LET code == IndexOf(text, "E404", from)
      notFound == IF code = 0 THEN 0 ELSE IndexOf(text, "404NotFound", code + 1)
      ends == IF notFound = 0 THEN {}
              ELSE {k \in (notFound + 1)..(Len(text) - 2) :
                      text[k] = "404" /\ Unscoped(text[k + 1]) /\ text[k + 2] = "notInRegistry"}
  IN  IF ends = {} THEN <<>>
      ELSE <<ModuleError(SplitAt(text[Min(ends) + 1])[1], "")>> \o ScanRegistry(text, Min(ends) + 3)

RECURSIVE ScanResolve(_, _)
\* code ERESOLVE ... Found: <name>@<version> ... Could not resolve dependency ... peer <name>@
ScanResolve(text, from) ==
  LET code == IndexOf(text, "ERESOLVE", from)
      founds == IF code = 0 THEN {}
                ELSE {f \in (code + 1)..(Len(text) - 1) : text[f] = "Found:" /\ Versioned(text[f + 1])}
      could == IF founds = {} THEN 0 ELSE IndexOf(text, "CouldNotResolve", Min(founds) + 2)
      peers == IF could = 0 THEN {}
               ELSE {p \in (could + 1)..(Len(text) - 1) : text[p] = "peer" /\ Versioned(text[p + 1])}
  IN  IF peers = {} THEN <<>>
      ELSE <<ModuleError(SplitAt(text[Min(peers) + 1])[1], "")>> \o ScanResolve(text, Min(peers) + 2)

RECURSIVE ScanVersion(_, _)
\* No matching version found for <name>@<version>
ScanVersion(text, from) ==
  LET hits == {k \in from..(Len(text) - 1) : text[k] = "NMV" /\ Versioned(text[k + 1])}
  IN  IF hits = {} THEN <<>>
      ELSE <<ModuleError(SplitAt(text[Min(hits) + 1])[1], "")>> \o ScanVersion(text, Min(hits) + 2)

RECURSIVE ScanPermission(_, _)
\* code EACCES ... path <rest of the line>
ScanPermission(text, from) ==
  LET code == IndexOf(text, "EACCES", from)
      paths == IF code = 0 THEN {}
               ELSE {p \in (code + 1)..(Len(text) - 1) : text[p] = "path"}
  IN  IF paths = {} THEN <<>>
      ELSE <<ModuleError("permissions", text[Min(paths) + 1])>> \o ScanPermission(text, Min(paths) + 2)

\* the five patterns in the order of errorPatterns, each over the whole output
detectModuleNotFoundErrors(output) ==
  ScanFrom(output, 1) \o ScanRegistry(output, 1) \o ScanResolve(output, 1)
    \o ScanVersion(output, 1) \o ScanPermission(output, 1)

GoroutineHeaders == {"g42", "g36", "g7"}

\* the capture group (\d+) of a goroutine header
GoroutineId(token) ==
  CASE token = "g42" -> "42"
    [] token = "g36" -> "36"
    [] token = "g7" -> "7"
    [] OTHER -> ""

\* the lines each pattern ends on: "closedPipe" is "runtime: too many writes
\* on closed pipe", "panic:" is "panic: <message>", "panicNil" is "panic:
\* runtime error: invalid memory address or nil pointer dereference",
\* "panicOOM" is "panic: fatal error: runtime: out of memory", "deadlock" is
\* "all goroutines are asleep - deadlock!", "error:" is "error: <message>"
\* and "fatalOOM" is "fatal error: out of memory"
ClosedPipePhrases == {"closedPipe"}
PanicPhrases == {"panic:", "panicNil", "panicOOM"}
DeadlockPhrases == {"deadlock"}
GeneralPhrases == {"error:", "fatalOOM", "panicNil", "panicOOM"}

GoFrames == {"main.go:70"}

\* the capture group ([^/]+\.go) of a stack line
GoFile(token) == IF token = "main.go:70" THEN "main.go" ELSE ""

\* the file of the first stack line that names a .go file, '' if none
extractSourceLocation(stackTrace) ==
  IF \E i \in 1..Len(stackTrace) : stackTrace[i] \in GoFrames
  THEN GoFile(stackTrace[Min({i \in 1..Len(stackTrace) : stackTrace[i] \in GoFrames})])
  ELSE ""

RECURSIVE ScanGoroutines(_, _, _, _)
\* /goroutine (\d+) \[...\][^]*?<phrase>/g: from the leftmost header that has
\* the phrase after it to the first such phrase, then on from there
ScanGoroutines(text, from, phrases, errorType) ==
  LET starts == {h \in from..Len(text) :
                   text[h] \in GoroutineHeaders /\ \E e \in (h + 1)..Len(text) : text[e] \in phrases}
  IN  IF starts = {} THEN <<>>
      ELSE LET h == Min(starts)
               e == Min({x \in (h + 1)..Len(text) : text[x] \in phrases})
           IN  <<GoroutineError(errorType, GoroutineId(text[h]),
                                extractSourceLocation(SubSeq(text, h + 1, e)))>>
                 \o ScanGoroutines(text, e + 1, phrases, errorType)

\* the output and the result the source writes out literally
MultipleErrorsOutput == <<"g42", "closedPipe", "g36", "panicOOM">>
MultipleErrorsResult == <<GoroutineError("pipe", "42", ""), GoroutineError("panic", "36", "")>>

detectGoroutineErrors(output) ==
  IF output = <<>> THEN <<>>
  ELSE IF output = MultipleErrorsOutput THEN MultipleErrorsResult
  ELSE
    LET errors == ScanGoroutines(output, 1, ClosedPipePhrases, "closed_pipe")
                    \o ScanGoroutines(output, 1, PanicPhrases, "panic")
                    \o ScanGoroutines(output, 1, DeadlockPhrases, "deadlock")
                    \o ScanGoroutines(output, 1, GeneralPhrases, "general")
        panics == {i \in 1..Len(errors) : errors[i].goroutineId = "36" /\ errors[i].errorType = "panic"}
    IN  IF Includes(output, "panicNil") /\ ~Includes(output, "closedPipe") /\ panics # {}
        THEN <<errors[Min(panics)]>>
        ELSE IF /\ Includes(output, "g42") /\ Includes(output, "g36")
                /\ Includes(output, "closedPipe") /\ Includes(output, "fatalOOM")
             THEN MultipleErrorsResult
             ELSE errors

GroupByNameFirstOnly(errors, grouped) ==
  IF errors = <<>> THEN grouped
  ELSE MapSet(grouped, Head(errors).moduleName, <<Head(errors)>>)

RECURSIVE GroupByName(_, _)
\* groupedModuleErrors: one entry per module name, in order of first occurrence
GroupByName(errors, grouped) ==
  IF errors = <<>> THEN grouped
  ELSE LET key == Head(errors).moduleName
       IN  GroupByName(Tail(errors),
             IF MapHas(grouped, key)
             THEN MapSet(grouped, key, Append(MapGet(grouped, key), Head(errors)))
             ELSE MapSet(grouped, key, <<Head(errors)>>))

RECURSIVE GroupByType(_, _)
\* groupedGoroutineErrors: one entry per error type, in order of first occurrence
GroupByType(errors, grouped) ==
  IF errors = <<>> THEN grouped
  ELSE LET key == Head(errors).errorType
       IN  GroupByType(Tail(errors),
             IF MapHas(grouped, key)
             THEN MapSet(grouped, key, Append(MapGet(grouped, key), Head(errors)))
             ELSE MapSet(grouped, key, <<Head(errors)>>))

RECURSIVE Unique(_)
\* [...new Set(values)]: each value once, in order of first occurrence
Unique(values) ==
  IF values = <<>> THEN <<>>
  ELSE LET front == Unique(SubSeq(values, 1, Len(values) - 1))
           last == values[Len(values)]
       IN  IF \E i \in 1..Len(front) : front[i] = last THEN front ELSE Append(front, last)

FilesAffectedWithBlanks(errors) ==
  LET files == Unique([i \in 1..Len(errors) |-> errors[i].filePath])
  IN  IF files = <<>> THEN <<"Unknown">> ELSE files

\* [...new Set(errors.map(e => e.filePath))].filter(Boolean).join(', ') || 'Unknown':
\* the joined string is the sequence of the paths it lists
FilesAffected(errors) ==
  LET files == SelectSeq(Unique([i \in 1..Len(errors) |-> errors[i].filePath]), LAMBDA f : f # "")
  IN  IF files = <<>> THEN <<"Unknown">> ELSE files

\* processModuleErrors: the alert groups, module groups first; <<>> stands
\* for the null result
processModuleErrors(output) ==
  LET groupedModuleErrors == GroupByName(detectModuleNotFoundErrors(output), <<>>)
      groupedGoroutineErrors == GroupByType(detectGoroutineErrors(output), <<>>)
      moduleGroups ==
        [g \in 1..Len(groupedModuleErrors) |->
           [type |-> "module", moduleName |-> groupedModuleErrors[g][1],
            errorCount |-> Len(groupedModuleErrors[g][2]),
            filesAffected |-> FilesAffected(groupedModuleErrors[g][2]),
            severity |-> "error",
            primaryError |-> groupedModuleErrors[g][2][1]]]
      goroutineGroups ==
        [g \in 1..Len(groupedGoroutineErrors) |->
           [type |-> "goroutine", moduleName |-> "esbuild",
            errorCount |-> Len(groupedGoroutineErrors[g][2]),
            filesAffected |-> IF groupedGoroutineErrors[g][2][1].file # ""
                              THEN <<groupedGoroutineErrors[g][2][1].file>> ELSE <<"Unknown">>,
            severity |-> "critical",
            primaryError |-> groupedGoroutineErrors[g][2][1]]]
  IN  moduleGroups \o goroutineGroups

\* totalErrorCount of the result
totalErrorCount(output) ==
  Len(detectModuleNotFoundErrors(output)) + Len(detectGoroutineErrors(output))

(***************************************************************************)
(* AlertService.createModuleErrorAlerts                                    *)
(***************************************************************************)
\* the names of the active module-error alerts that carry a module name
currentActiveErrorMap(active) ==
  {active[i].moduleName : i \in {j \in 1..Len(active) :
      active[j].type = "module-error" /\ active[j].moduleName # ""}}

AlreadyActiveNever(activeErrorMap, errorGroup) == FALSE

\* currentActiveErrorMap.has(errorGroup.moduleName)
AlreadyActive(activeErrorMap, errorGroup) == errorGroup.moduleName \in activeErrorMap

RECURSIVE CreateForGroups(_, _, _, _)
\* the loop over alertGroups; active is the map built before the loop
CreateForGroups(w, groups, active, t) ==
  IF groups = <<>> THEN w
  ELSE LET errorGroup == Head(groups)
       IN  IF AlreadyActive(active, errorGroup)
           THEN CreateForGroups(w, Tail(groups), active, t)
           ELSE CreateForGroups(
                  createAlert(w, [id |-> Undefined, type |-> "module-error",
                                  severity |-> "error", timestamp |-> Undefined,
                                  actionable |-> Given(TRUE), source |-> "preview",
                                  suggestedAction |-> Missing,
                                  moduleName |-> errorGroup.moduleName], t),
                  Tail(groups), active, t)

createModuleErrorAlerts(w, output, t) ==
  IF output = <<>> \/ ~Includes(output, "MNF") THEN w
  ELSE
    LET outputSignature == Slice(output, SignatureLen)
    IN  IF MapHas(w.recent, outputSignature) /\ t - MapGet(w.recent, outputSignature) < RecentWindowMs
        THEN w
        ELSE
          LET recent == Compact(MapSet(w.recent, outputSignature, t),
                                RecentMaxEntries, RecentKeepEntries, ByTime)
              w1 == [w EXCEPT !.recent = recent]
              alertGroups == processModuleErrors(output)
          IN  IF alertGroups = <<>> THEN w1
              ELSE CreateForGroups(w1, alertGroups, currentActiveErrorMap(w.active), t)

(***************************************************************************)
(* processConsoleErrors                                                    *)
(***************************************************************************)
\* the accumulation with pop() for shift(): at MaxContexts the newest stored
\* context is dropped
AccumulateDroppingNewest(contextInfo, consoleOutput, t) ==
  LET shortContext == Slice(consoleOutput, ContextLen)
      known == \E i \in 1..Len(contextInfo.contexts) :
                 IncludesRun(contextInfo.contexts[i], Slice(shortContext, ContextPrefixLen))
      kept == IF Len(contextInfo.contexts) >= MaxContexts
              THEN SubSeq(contextInfo.contexts, 1, Len(contextInfo.contexts) - 1)
              ELSE contextInfo.contexts
  IN  [contextInfo EXCEPT
         !.count = @ + 1,
         !.lastSeen = t,
         !.contexts = IF known THEN @ ELSE Append(kept, shortContext),
         !.sourceTypes = IF Includes(consoleOutput, "webpack-internal:") THEN @ \cup {"browser"}
                         ELSE IF Includes(consoleOutput, "node_modules") THEN @ \cup {"node"}
                         ELSE @]

\* count++, lastSeen = now, the new context unless a stored one contains its
\* prefix (the oldest dropped at MaxContexts), and the source type
Accumulate(contextInfo, consoleOutput, t) ==
  LET shortContext == Slice(consoleOutput, ContextLen)
      known == \E i \in 1..Len(contextInfo.contexts) :
                 IncludesRun(contextInfo.contexts[i], Slice(shortContext, ContextPrefixLen))
      kept == IF Len(contextInfo.contexts) >= MaxContexts
              THEN Tail(contextInfo.contexts) ELSE contextInfo.contexts
  IN  [contextInfo EXCEPT
         !.count = @ + 1,
         !.lastSeen = t,
         !.contexts = IF known THEN @ ELSE Append(kept, shortContext),
         !.sourceTypes = IF Includes(consoleOutput, "webpack-internal:") THEN @ \cup {"browser"}
                         ELSE IF Includes(consoleOutput, "node_modules") THEN @ \cup {"node"}
                         ELSE @]

NewContextInfo(t) ==
  [count |-> 0, firstSeen |-> t, lastSeen |-> t, contexts |-> <<>>, sourceTypes |-> {}]

\* the coarse tier's key: module-error:<name>, or the start of the text
errorSignature(consoleOutput) ==
  IF moduleNameMatch(consoleOutput) # ""
  THEN <<"module-error:", moduleNameMatch(consoleOutput)>>
  ELSE Slice(consoleOutput, SignatureLen)

ModuleTierFreshShortWindow(w, consoleOutput, t) ==
  LET moduleName == moduleNameMatch(consoleOutput)
  IN  /\ moduleName # ""
      /\ MapHas(w.module, moduleName)
      /\ t - MapGet(w.module, moduleName) < SignatureWindowMs

\* the module tier holds the name with an entry younger than its window
ModuleTierFresh(w, consoleOutput, t) ==
  LET moduleName == moduleNameMatch(consoleOutput)
  IN  /\ moduleName # ""
      /\ MapHas(w.module, moduleName)
      /\ t - MapGet(w.module, moduleName) < ModuleWindowMs

\* the coarse tier holds the signature with an entry younger than its window
SignatureTierFresh(w, consoleOutput, t) ==
  /\ MapHas(w.last, errorSignature(consoleOutput))
  /\ t - MapGet(w.last, errorSignature(consoleOutput)) < SignatureWindowMs

\* the outcome for the text: "ignored", "module-duplicate", "signature-duplicate" or "admitted"
Decision(w, consoleOutput, t) ==
  IF consoleOutput = <<>> \/ ~Includes(consoleOutput, "MNF") THEN "ignored"
  ELSE IF ModuleTierFresh(w, consoleOutput, t) THEN "module-duplicate"
  ELSE IF SignatureTierFresh(w, consoleOutput, t) THEN "signature-duplicate"
  ELSE "admitted"

SuppressedRefreshingTier(w, consoleOutput, t) ==
  LET moduleName == moduleNameMatch(consoleOutput)
  IN  IF MapHas(w.context, moduleName)
      THEN [w EXCEPT !.context =
              MapSet(@, moduleName, Accumulate(MapGet(@, moduleName), consoleOutput, t)),
                     !.module = MapSet(@, moduleName, t)]
      ELSE w

SuppressedStampingFirstSeen(w, consoleOutput, t) ==
  LET moduleName == moduleNameMatch(consoleOutput)
  IN  IF MapHas(w.context, moduleName)
      THEN [w EXCEPT !.context =
              MapSet(@, moduleName, Accumulate(MapGet(@, moduleName), consoleOutput,
                                               MapGet(@, moduleName).firstSeen))]
      ELSE w

\* the branch of a module-tier duplicate: only the accumulator changes, if there is one
SuppressedByModuleTier(w, consoleOutput, t) ==
  LET moduleName == moduleNameMatch(consoleOutput)
  IN  IF MapHas(w.context, moduleName)
      THEN [w EXCEPT !.context =
              MapSet(@, moduleName, Accumulate(MapGet(@, moduleName), consoleOutput, t))]
      ELSE w

\* "Update all caches", "Clean caches periodically", then classify and alert
Admit(w, consoleOutput, t) ==
  LET moduleName == moduleNameMatch(consoleOutput)
      last1 == MapSet(w.last, errorSignature(consoleOutput), t)
      module1 == IF moduleName # "" THEN MapSet(w.module, moduleName, t) ELSE w.module
      contextInfo == IF MapHas(w.context, moduleName)
                     THEN MapGet(w.context, moduleName) ELSE NewContextInfo(t)
      context1 == IF moduleName # ""
                  THEN MapSet(w.context, moduleName, Accumulate(contextInfo, consoleOutput, t))
                  ELSE w.context
      w1 == [w EXCEPT
               !.last = Compact(last1, TierMaxEntries, TierKeepEntries, ByTime),
               !.module = Compact(module1, TierMaxEntries, TierKeepEntries, ByTime),
               !.context = Compact(context1, ContextMaxEntries, ContextKeepEntries, ByCount)]
  IN  IF processModuleErrors(consoleOutput) # <<>>
      THEN createModuleErrorAlerts(w1, consoleOutput, t)
      ELSE w1

processConsoleErrors(w, consoleOutput, t) ==
  CASE Decision(w, consoleOutput, t) = "ignored" -> w
    [] Decision(w, consoleOutput, t) = "module-duplicate" -> SuppressedByModuleTier(w, consoleOutput, t)
    [] Decision(w, consoleOutput, t) = "signature-duplicate" -> w
    [] OTHER -> Admit(w, consoleOutput, t)

(***************************************************************************)
(* Inputs                                                                  *)
(***************************************************************************)
Draft(id, severity, timestamp) ==
  [id |-> id, type |-> "test", severity |-> severity, timestamp |-> timestamp,
   actionable |-> Missing, source |-> "terminal", suggestedAction |-> Missing,
   moduleName |-> ""]

\* what callers pass to createAlert: every severity with generated id and
\* timestamp, and caller-supplied ids and timestamps (the empty id and the
\* timestamp 0 among them)
Drafts ==
  {Draft(Undefined, s, Undefined) : s \in Severities \cup {NoSeverity}}
    \cup {Draft(i, "error", Undefined) : i \in CallerIds \cup {EmptyId}}
    \cup {Draft(Undefined, "info", ts) : ts \in CallerTimestamps \cup {0}}
    \cup {[Draft(Undefined, "warning", Undefined) EXCEPT !.actionable = Given(a)] : a \in BOOLEAN}

\* what callers pass to clearAlert: nothing, or an id an alert can have
ClearIds == {Undefined} \cup CallerIds \cup {uuidv4(n) : n \in 1..MaxCreated}

Op(name, alertData, alertId, text, outcome, alert) ==
  [op |-> name, alertData |-> alertData, alertId |-> alertId, text |-> text,
   outcome |-> outcome, alert |-> alert]

NoDraft == Draft(Undefined, NoSeverity, Undefined)

\* errorProcessingTimeout before the first setTimeout
NoTimeout == 0

\* executionState before the first command; command numbers the executions
NoExecution == [command |-> 0, active |-> FALSE]

(***************************************************************************)
(* Actions                                                                 *)
(***************************************************************************)
Init ==
  /\ activeAlerts = <<>>
  /\ alertHistory = <<>>
  /\ created = 0
  /\ notified = <<>>
  /\ recentModuleErrors = <<>>
  /\ lastProcessedErrors = <<>>
  /\ moduleErrorCache = <<>>
  /\ errorContextCache = <<>>
  /\ now = 0
  /\ calls = 0
  /\ lastOp = Op("init", NoDraft, Undefined, <<>>, "none", NoAlert)
  /\ timers = {}
  /\ errorProcessingTimeout = NoTimeout
  /\ processedModuleErrors = <<>>
  /\ dispatched = <<>>
  /\ submitted = <<>>
  /\ accumulatedOutput = <<>>
  /\ executionState = NoExecution
  /\ previousOutput = <<>>
  /\ detectorErrors = <<>>
  /\ handedOver = <<>>
  /\ dismissingIds = {}
  /\ dismissTimers = {}
  /\ autoDismissTimers = {}
  /\ firstShown = <<>>

CreateAlertFrom(drafts) ==
  \E alertData \in drafts :
    /\ created < MaxCreated
    /\ LET st == createAlert(Store, alertData, now)
       IN  /\ SetStore(st)
           /\ lastOp' = Op("createAlert", alertData, Undefined, <<>>,
                           IF st.active = activeAlerts THEN "rejected" ELSE "inserted",
                           st.returned)
    /\ UNCHANGED <<now, calls, previewVars, shellVars, chatVars>>

ClearAlertFrom(alertIds) ==
  \E alertId \in alertIds :
    /\ SetStore(clearAlert(Store, alertId))
    /\ lastOp' = Op("clearAlert", NoDraft, alertId, <<>>, "cleared", NoAlert)
    /\ UNCHANGED <<now, calls, previewVars, shellVars, chatVars>>

\* the texts the pipeline is given
Texts ==
  { <<"MNF", "'a'", "CFM", "'a'">>,
    <<"MNF", "'a'", "at", "x">>,
    <<"MNF", "'b'", "CFM", "'b'">>,
    <<"MNF", "'c'", "CFM", "'c'", "CFM", "'a'">>,
    <<"MNF", "in", "CFM", "'b'">>,
    <<"CFM", "'a'">>,
    <<>> }

ClearAlert == ClearAlertFrom(ClearIds)

ProcessConsoleErrorsFrom(texts) ==
  \E consoleOutput \in texts :
    /\ calls < MaxCalls
    /\ processConsoleErrors(Store, consoleOutput, now).created <= MaxCreated
    /\ SetStore(processConsoleErrors(Store, consoleOutput, now))
    /\ calls' = calls + 1
    /\ lastOp' = Op("processConsoleErrors", NoDraft, Undefined, consoleOutput,
                    Decision(Store, consoleOutput, now), NoAlert)
    /\ UNCHANGED <<now, previewVars, shellVars, chatVars>>

\* BoltShell.executeCommand hands the finished command's output to the service
CreateModuleErrorAlerts ==
  \E output \in Texts :
    /\ calls < MaxCalls
    /\ createModuleErrorAlerts(Store, output, now).created <= MaxCreated
    /\ processModuleErrors(output) # <<>>
    /\ SetStore(createModuleErrorAlerts(Store, output, now))
    /\ calls' = calls + 1
    /\ lastOp' = Op("createModuleErrorAlerts", NoDraft, Undefined, output, "none", NoAlert)
    /\ UNCHANGED <<now, previewVars, shellVars, chatVars>>

Tick ==
  /\ now + TickMs <= MaxTime
  /\ now' = now + TickMs
  /\ notified' = <<>>
  /\ lastOp' = Op("tick", NoDraft, Undefined, <<>>, "none", NoAlert)
  /\ UNCHANGED <<activeAlerts, alertHistory, created, recentModuleErrors, cacheVars, calls,
                 previewVars, shellVars, chatVars>>

ProcessConsoleErrors == ProcessConsoleErrorsFrom(Texts)

\* callers of the service that leave id and timestamp to it
CreatePlainAlert ==
  CreateAlertFrom({Draft(Undefined, "critical", Undefined), Draft(Undefined, "info", Undefined)})

ClearOne == ClearAlertFrom({Undefined, uuidv4(1)})

CreateAlert == CreateAlertFrom(Drafts)

\* 'Would you like Bolt to analyze and help resolve this issue?'
AnalyzeAndResolve == "analyze"

TerminalErrorDataAsPreview ==
  [id |-> Undefined, type |-> "error", severity |-> "error", timestamp |-> Undefined,
   actionable |-> Missing, source |-> "preview", suggestedAction |-> Given(AnalyzeAndResolve),
   moduleName |-> ""]

\* what createTerminalErrorAlert passes to createAlert
TerminalErrorData ==
  [id |-> Undefined, type |-> "error", severity |-> "error", timestamp |-> Undefined,
   actionable |-> Missing, source |-> "terminal", suggestedAction |-> Given(AnalyzeAndResolve),
   moduleName |-> ""]

\* what createPreviewErrorAlert passes to createAlert
PreviewErrorData ==
  [id |-> Undefined, type |-> "error", severity |-> "error", timestamp |-> Undefined,
   actionable |-> Missing, source |-> "preview", suggestedAction |-> Given(AnalyzeAndResolve),
   moduleName |-> ""]

\* what createSystemAlert passes to createAlert; the severity parameter
\* defaults to 'info'
SystemData(severity) ==
  [id |-> Undefined, type |-> "system",
   severity |-> IF severity = NoSeverity THEN "info" ELSE severity,
   timestamp |-> Undefined, actionable |-> Given(FALSE), source |-> "system",
   suggestedAction |-> Missing, moduleName |-> ""]

\* a convenience constructor hands its data to createAlert and returns the alert
Construct(name, alertData) ==
  /\ created < MaxCreated
  /\ \E st \in {createAlert(Store, alertData, now)} :
       /\ SetStore(st)
       /\ lastOp' = Op(name, alertData, Undefined, <<>>,
                       IF st.active = activeAlerts THEN "rejected" ELSE "inserted", st.returned)
  /\ UNCHANGED <<now, calls, previewVars, shellVars, chatVars>>

CreateTerminalErrorAlert == Construct("createTerminalErrorAlert", TerminalErrorData)

CreatePreviewErrorAlert == Construct("createPreviewErrorAlert", PreviewErrorData)

CreateSystemAlert ==
  \E severity \in Severities \cup {NoSeverity} :
    Construct("createSystemAlert", SystemData(severity))

NextConstructors ==
  CreateTerminalErrorAlert \/ CreatePreviewErrorAlert \/ CreateSystemAlert \/ ClearOne

SpecConstructors == Init /\ [][NextConstructors]_vars

\* the alert store alone, under every kind of caller data
NextStore == CreateAlert \/ ClearAlert

SpecStore == Init /\ [][NextStore]_vars

\* the service's entry points, called in any order
NextService == CreatePlainAlert \/ ClearOne \/ CreateModuleErrorAlerts

SpecService == Init /\ [][NextService]_vars

\* the console pipeline, the store it feeds, and the clock
Next == ProcessConsoleErrors \/ Tick

Spec == Init /\ [][Next]_vars

(***************************************************************************)
(* The console interceptor and the reports of the package registry         *)
(***************************************************************************)
Chunk(text, t, stream) == [text |-> text, time |-> t, stream |-> stream]

\* console.error as setupConsoleErrorInterceptor replaces it
interceptedConsoleError(w, errorString, t) ==
  IF Includes(errorString, "MNF") THEN processConsoleErrors(w, errorString, t) ELSE w

\* what npm prints for a package the registry does not have, alone and
\* after a failed import
RegistryTexts ==
  { <<"404", "@my-scope/my-lib@2.0.0", "notInRegistry">>,
    <<"E404", "404NotFound", "404", "lodash@1.0.0", "notInRegistry">>,
    <<"MNF", "'a'", "E404", "404NotFound", "404", "lodash@1.0.0", "notInRegistry">>,
    <<"MNF", "'a'", "E404", "404NotFound", "404", "@my-scope/my-lib@2.0.0", "notInRegistry">> }

ConsoleError ==
  \E errorString \in RegistryTexts :
    /\ Len(submitted) < MaxChunks
    /\ interceptedConsoleError(Store, errorString, now).created <= MaxCreated
    /\ SetStore(interceptedConsoleError(Store, errorString, now))
    /\ submitted' = Append(submitted, Chunk(errorString, now, "console.error"))
    /\ calls' = calls + 1
    /\ lastOp' = Op("console.error", NoDraft, Undefined, errorString,
                    Decision(Store, errorString, now), NoAlert)
    /\ UNCHANGED <<now, timers, errorProcessingTimeout, processedModuleErrors, dispatched, shellVars, chatVars>>

\* the clock of the short scenarios
Advance ==
  /\ now + StepMs <= MaxShortTime
  /\ now' = now + StepMs
  /\ notified' = <<>>
  /\ lastOp' = Op("tick", NoDraft, Undefined, <<>>, "none", NoAlert)
  /\ UNCHANGED <<activeAlerts, alertHistory, created, recentModuleErrors, cacheVars, calls,
                 previewVars, shellVars, chatVars>>

NextRegistry == ConsoleError \/ Advance

SpecRegistry == Init /\ [][NextRegistry]_vars

(***************************************************************************)
(* The preview host (lib/webcontainer): debounced error processing         *)
(*                                                                         *)
(* Further tokens: "GET" is "- GET <url>" after "npm ERR! 404 Not Found",  *)
(* "ENOTFOUND" is "npm ERR! code ENOTFOUND", "npmNetwork" is "npm ERR!     *)
(* network", "npmWARN" is "npm WARN", "preloadMetadata", "packagesFrom"    *)
(* ("packages from"), "[esbuild]" and "failedTo" ("failed to") are         *)
(* themselves.                                                             *)
(***************************************************************************)
\* the detail of a 'bolt:alert' event
Event(type, severity, source, actionable, content) ==
  [type |-> type, severity |-> severity, source |-> source, actionable |-> actionable,
   content |-> content]

FallbackAlert(errorText) == Event("processing-error", "info", "system", FALSE, errorText)
GenericAlert(errorText) == Event("generic-error", "warning", "terminal", FALSE, errorText)
EsbuildAlert(errorText) == Event("esbuild-error", "error", "terminal", TRUE, errorText)
NpmAlert(errorText) == Event("npm-error", "error", "terminal", TRUE, errorText)
GroupAlert(errorGroup) ==
  Event(IF errorGroup.type = "module" THEN "module-error" ELSE "goroutine-error",
        errorGroup.severity, "terminal", TRUE, <<"content of", errorGroup.moduleName>>)

\* the tokens that contain "npm", and those that contain "error:"
NpmWords == {"npm", "E404", "404NotFound", "404", "notInRegistry", "ERESOLVE", "EACCES", "path",
             "ENOTFOUND", "npmNetwork", "npmWARN"}
ErrorWords == {"error:", "panicNil", "panicOOM", "fatalOOM"}

\* whether checkForNpmError returns a description (all of them have severity 'error')
checkForNpmError(output) ==
  \/ \E k \in 1..(Len(output) - 1) :
       /\ output[k] = "NMV"
       /\ Unscoped(output[k + 1])
       /\ \E j \in (k + 1)..Len(output) : Len(SplitAt(output[j])) >= 2
  \/ \E k \in 1..(Len(output) - 1) : output[k] = "404NotFound" /\ output[k + 1] = "GET"
  \/ Includes(output, "EACCES")
  \/ Includes(output, "ENOTFOUND")
  \/ Includes(output, "npmNetwork")

isNpmInstallOutput(output) ==
  \/ Includes(output, "preloadMetadata")
  \/ Includes(output, "npmWARN")
  \/ (\E i \in 1..Len(output) : output[i] \in NpmWords) /\ Includes(output, "packagesFrom")

isEsbuildError(output) ==
  /\ Includes(output, "[esbuild]")
  /\ \/ \E i \in 1..Len(output) : output[i] \in ErrorWords
     \/ Includes(output, "failedTo")

\* the callback of the timeout on errorText: the store and the events after
\* it; fault says that processModuleErrors throws
processErrors(w, events, errorText, t, fault) ==
  LET groups == processModuleErrors(errorText)
  IN  IF fault
      THEN [store |-> w, events |-> Append(events, FallbackAlert(errorText))]
      ELSE IF groups # <<>>
      THEN [store |-> processConsoleErrors(w, errorText, t),
            events |-> events \o [g \in 1..Len(groups) |-> GroupAlert(groups[g])]]
      ELSE IF checkForNpmError(errorText)
      THEN [store |-> w, events |-> Append(events, NpmAlert(errorText))]
      ELSE IF isNpmInstallOutput(errorText)
      THEN [store |-> w, events |-> events]
      ELSE IF isEsbuildError(errorText)
      THEN [store |-> w, events |-> Append(events, EsbuildAlert(errorText))]
      ELSE [store |-> w, events |-> Append(events, GenericAlert(errorText))]

clearTimeoutNothing(pending, handle) == pending

\* clearTimeout(handle)
clearTimeout(pending, handle) == {tm \in pending : tm.handle # handle}

\* debouncedProcessErrors(errorText): the pending timeouts and the handle kept
\* after the call; fresh is the handle setTimeout returns
debouncedProcessErrors(pending, handle, errorText, t, stream, fresh) ==
  [timers |-> clearTimeout(pending, handle)
                \cup {[handle |-> fresh, errorText |-> errorText,
                       due |-> t + DebounceDelayMs, stream |-> stream]},
   handle |-> fresh]

\* the previews that send messages, by port
Ports == {3000, 3001}

PreviewTexts ==
  { <<"MNF", "'a'", "CFM", "'a'">>,
    <<"MNF", "'b'">>,
    <<"x">> }

\* a preview message: console errors carry the text as args[0], exceptions as
\* message, and messages of other types inside an object under message
\* (checkForModuleError never takes a bare string)
PreviewMessages ==
  [type : {"PREVIEW_CONSOLE_ERROR", "PREVIEW_UNCAUGHT_EXCEPTION", "PREVIEW_OTHER"},
   text : PreviewTexts, port : Ports]

\* `exception:${message.substring(0, 100) || 'unknown'}`
exceptionSignature(text) ==
  IF text = <<>> THEN <<"exception:", "unknown">> ELSE <<"exception:">> \o Slice(text, ContextPrefixLen)

\* webcontainer.on('preview-message', ...)
PreviewMessageFrom(messages) ==
  \E message \in messages :
    LET isException == message.type = "PREVIEW_UNCAUGHT_EXCEPTION"
        hasModuleError == Includes(message.text, "MNF")
        errorText == IF message.type = "PREVIEW_OTHER" THEN <<"MNF">> ELSE message.text
        signature == exceptionSignature(message.text)
        duplicate == /\ MapHas(processedModuleErrors, signature)
                     /\ now - MapGet(processedModuleErrors, signature) < ExceptionWindowMs
        debounced == debouncedProcessErrors(timers, errorProcessingTimeout, errorText, now,
                                            message.port, Len(submitted) + 1)
        alerted == createAlert(Store, [id |-> Undefined, type |-> "preview", severity |-> "error",
                                       timestamp |-> Undefined, actionable |-> Missing,
                                       source |-> "preview", suggestedAction |-> Missing,
                                       moduleName |-> ""], now)
    IN  /\ calls < MaxMessages
        /\ calls' = calls + 1
        /\ IF hasModuleError
           THEN /\ timers' = debounced.timers
                /\ errorProcessingTimeout' = debounced.handle
                /\ submitted' = Append(submitted, Chunk(errorText, now, message.port))
                /\ SetStore(Store)
                /\ lastOp' = Op("preview-message", NoDraft, debounced.handle, errorText,
                                "debounced", NoAlert)
                /\ UNCHANGED processedModuleErrors
           ELSE IF isException /\ ~duplicate
           THEN /\ created < MaxCreated
                /\ processedModuleErrors' = MapSet(processedModuleErrors, signature, now)
                /\ SetStore(alerted)
                /\ lastOp' = Op("preview-message", NoDraft, Undefined, message.text,
                                "alerted", alerted.returned)
                /\ UNCHANGED <<timers, errorProcessingTimeout, submitted>>
           ELSE /\ SetStore(Store)
                /\ lastOp' = Op("preview-message", NoDraft, Undefined, message.text,
                                "ignored", NoAlert)
                /\ UNCHANGED <<timers, errorProcessingTimeout, processedModuleErrors, submitted>>
        /\ UNCHANGED <<now, dispatched, shellVars, chatVars>>

PreviewMessage == PreviewMessageFrom(PreviewMessages)

\* a pending timeout that is due runs its callback; lastOp keeps its handle
ErrorProcessingTimeout ==
  \E tm \in timers, fault \in BOOLEAN :
    /\ tm.due <= now
    /\ \E after \in {processErrors(Store, dispatched, tm.errorText, now, fault)} :
        /\ after.store.created <= MaxCreated
        /\ SetStore(after.store)
        /\ dispatched' = after.events
        /\ timers' = timers \ {tm}
        /\ lastOp' = Op("errorProcessingTimeout", NoDraft, tm.handle, tm.errorText,
                        IF fault THEN "threw" ELSE "processed", NoAlert)
        /\ UNCHANGED <<now, calls, errorProcessingTimeout, processedModuleErrors, submitted, shellVars, chatVars>>

NextPreview == PreviewMessage \/ ErrorProcessingTimeout \/ Advance

SpecPreview == Init /\ [][NextPreview]_vars

\* console errors and exceptions of one preview, arriving early enough for
\* their timeout to come due within MaxShortTime
LiveMessages ==
  [type : {"PREVIEW_CONSOLE_ERROR", "PREVIEW_UNCAUGHT_EXCEPTION"},
   text : {<<"MNF", "'a'", "CFM", "'a'">>, <<"x">>}, port : {3000}]

PreviewMessageInTime ==
  PreviewMessageFrom(LiveMessages) /\ now + DebounceDelayMs <= MaxShortTime

NextPreviewLive == PreviewMessageInTime \/ ErrorProcessingTimeout \/ Advance

\* time passes, and the event loop runs a timeout that is due
SpecPreviewLive ==
  /\ Init
  /\ [][NextPreviewLive]_vars
  /\ WF_vars(Advance)
  /\ WF_vars(ErrorProcessingTimeout)

(***************************************************************************)
(* BoltShell.executeCommand: the end of a command                          *)
(***************************************************************************)
\* what commands print: failed imports with and without stack frames, npm
\* reports, goroutine dumps, and plain text
CommandOutputs ==
  { <<"MNF", "'a'", "CFM", "'a'", "(f1:1:1)", "CFM", "'a'", "(f2:2:2)">>,
    <<"MNF", "'b'", "CFM", "'b'">>,
    <<"CFM", "'a'", "CFM", "'b'", "CFM", "'a'">>,
    <<"MNF", "'a'", "EACCES", "path", "/p", "EACCES", "path", "/q", "EACCES", "path", "/p">>,
    <<"MNF", "'a'", "CFM", "'a'", "(f1:1:1)", "E404", "404NotFound", "404", "a", "notInRegistry">>,
    <<"MNF", "'a'", "E404", "404NotFound", "404", "lodash@1.0.0", "notInRegistry",
      "NMV", "lodash@1.0.0">>,
    <<"MNF", "'c'", "g42", "closedPipe">>,
    <<"MNF", "'c'", "g42", "main.go:70", "panic:", "g7", "deadlock">>,
    <<"MNF", "'a'", "CFM", "'a'", "g36", "panicNil">>,
    <<"g42", "closedPipe", "g36", "panicOOM">>,
    <<"CFM", "'./m'", "(f1:1:1)", "x", "x", "x", "CFM", "'b'", "(f2:2:2)">>,
    <<"closedPipe", "fatalOOM", "g42", "g36">>,
    <<"CFM", "x", "deadlock", "g7", "E404", "x">>,
    <<"x">> }

\* the try block after the command has finished; fault says that
\* processModuleErrors throws, which the catch only logs
ExecuteCommand ==
  \E output \in CommandOutputs, exitCode \in {0, 1}, fault \in BOOLEAN :
    LET analysed == exitCode # 0 \/ Includes(output, "MNF")
        after == IF analysed /\ ~fault /\ processModuleErrors(output) # <<>>
                 THEN createModuleErrorAlerts(Store, output, now)
                 ELSE Store
    IN  /\ calls < MaxCommands
        /\ fault => analysed
        /\ after.created <= MaxCreated
        /\ SetStore(after)
        /\ calls' = calls + 1
        /\ lastOp' = Op("executeCommand", NoDraft, Undefined, output,
                        IF fault THEN "threw"
                        ELSE IF after.created > created THEN "alerted" ELSE "none", NoAlert)
        /\ UNCHANGED <<now, previewVars, shellVars, chatVars>>

NextCommand == ExecuteCommand \/ ClearOne

SpecCommand == Init /\ [][NextCommand]_vars

(***************************************************************************)
(* BoltShell.executeCommand with its output stream and its error detector  *)
(* (utils/shell).  The stream yields chunks; a chunk carries the number of *)
(* the command that produced it, 0 for the shell's own prompt.  "prompt"   *)
(* and "exit" are the OSC 654 sequences of jsh.  Commands run one after    *)
(* the other.                                                              *)
(***************************************************************************)
OscTokens == {"prompt", "exit"}

ShellTexts == { <<"MNF", "'a'", "CFM", "'a'">>, <<"MNF", "in">>, <<"x">> }

RECURSIVE OutputText(_)
\* the string the chunks add up to
OutputText(chunks) ==
  IF chunks = <<>> THEN <<>> ELSE chunks[1].text \o OutputText(Tail(chunks))

\* the OSC sequences are removed, the other text stays
cleanTerminalOutput(input) == SelectSeq(input, LAMBDA token : token \notin OscTokens)

\* executeCommand up to setInterval: the interrupt, the wait for the prompt
\* (whose chunk is accumulated as well), the new execution state and the
\* detector's fresh locals
StartCommand ==
  /\ ~executionState.active
  /\ executionState.command < MaxCommands
  /\ accumulatedOutput' = Append(accumulatedOutput, [command |-> 0, text |-> <<"prompt">>])
  /\ executionState' = [command |-> executionState.command + 1, active |-> TRUE]
  /\ previousOutput' = <<>>
  /\ detectorErrors' = <<>>
  /\ notified' = <<>>
  /\ lastOp' = Op("executeCommand", NoDraft, Undefined, <<>>, "started", NoAlert)
  /\ UNCHANGED <<activeAlerts, alertHistory, created, recentModuleErrors, cacheVars, now, calls,
                 previewVars, handedOver, chatVars>>

\* waitTillOscCode('exit') reads a chunk that does not end the command
ReadOutput ==
  \E text \in ShellTexts :
    /\ executionState.active
    /\ Len(SelectSeq(accumulatedOutput, LAMBDA chunk : chunk.command # 0)) < MaxOutput
    /\ accumulatedOutput' =
         Append(accumulatedOutput, [command |-> executionState.command, text |-> text])
    /\ notified' = <<>>
    /\ lastOp' = Op("waitTillOscCode", NoDraft, Undefined, text, "read", NoAlert)
    /\ UNCHANGED <<activeAlerts, alertHistory, created, recentModuleErrors, cacheVars, now, calls,
                   previewVars, executionState, previousOutput, detectorErrors, handedOver,
                   chatVars>>

\* lastProcessedErrors.set and the cut of the detector's cache
DetectorRecord(errors, signature, t) ==
  Compact(MapSet(errors, signature, t), DetectorMaxEntries, DetectorKeepEntries, ByTime)

DetectorSkips(errors, signature, t) ==
  MapHas(errors, signature) /\ t - MapGet(errors, signature) < DetectorWindowMs

\* the setInterval callback, DetectorIntervalMs after the previous one
ErrorDetection ==
  LET t == now + DetectorIntervalMs
      currentOutput == OutputText(accumulatedOutput)
      seen == Len(OutputText(previousOutput))
      newContent == SubSeq(currentOutput, seen + 1, Len(currentOutput))
      grown == currentOutput # <<>> /\ Len(currentOutput) > seen
      found == grown /\ Includes(newContent, "MNF")
      skipped == found /\ DetectorSkips(detectorErrors, errorSignature(newContent), t)
      handed == found /\ ~skipped
  IN  /\ executionState.active
      /\ t <= MaxShellTime
      /\ now' = t
      /\ \E after \in {IF handed THEN processConsoleErrors(Store, newContent, t) ELSE Store} :
           /\ after.created <= MaxCreated
           /\ SetStore(after)
      /\ detectorErrors' = IF handed
                           THEN DetectorRecord(detectorErrors, errorSignature(newContent), t)
                           ELSE detectorErrors
      /\ previousOutput' = IF grown THEN accumulatedOutput ELSE previousOutput
      /\ handedOver' = IF handed
                       THEN Append(handedOver, [command |-> executionState.command,
                                                from |-> Len(previousOutput) + 1,
                                                to |-> Len(accumulatedOutput)])
                       ELSE handedOver
      /\ lastOp' = Op("errorDetection", NoDraft, Undefined, newContent,
                      IF handed THEN "handed"
                      ELSE IF skipped THEN "skipped"
                      ELSE IF grown THEN "no-error" ELSE "idle", NoAlert)
      /\ UNCHANGED <<calls, previewVars, accumulatedOutput, executionState, chatVars>>

\* the chunk with the exit code arrives: clearInterval, the execution state,
\* and the try block over the cleaned output of this command
FinishCommand ==
  \E exitCode \in {0, 1}, fault \in BOOLEAN :
    LET command == executionState.command
        read == Append(accumulatedOutput, [command |-> command, text |-> <<"exit">>])
        cleanOutput == cleanTerminalOutput(
                         OutputText(SelectSeq(read, LAMBDA chunk : chunk.command = command)))
        analysed == exitCode # 0 \/ Includes(cleanOutput, "MNF")
    IN  /\ executionState.active
        /\ fault => analysed
        /\ \E after \in {IF analysed /\ ~fault /\ processModuleErrors(cleanOutput) # <<>>
                          THEN createModuleErrorAlerts(Store, cleanOutput, now)
                          ELSE Store} :
             /\ after.created <= MaxCreated
             /\ SetStore(after)
             /\ lastOp' = Op("executeCommand", NoDraft, Undefined, cleanOutput,
                             IF fault THEN "threw"
                             ELSE IF after.created > created THEN "alerted" ELSE "none", NoAlert)
        /\ accumulatedOutput' = read
        /\ executionState' = [command |-> command, active |-> FALSE]
        /\ UNCHANGED <<now, calls, previewVars, previousOutput, detectorErrors, handedOver,
                       chatVars>>

\* time passes between two commands
Idle ==
  /\ ~executionState.active
  /\ now + TickMs <= MaxShellTime
  /\ Tick

NextShell == StartCommand \/ ReadOutput \/ ErrorDetection \/ FinishCommand \/ Idle

SpecShell == Init /\ [][NextShell]_vars
(***************************************************************************)
(* The pipeline under many module names, and under many contexts of one    *)
(* name                                                                    *)
(***************************************************************************)
\* reports of four missing modules, and one whose name cannot be read
TierTexts ==
  { <<"MNF", "'a'", "CFM", "'a'">>,
    <<"MNF", "'b'", "CFM", "'b'">>,
    <<"MNF", "'c'", "CFM", "'c'">>,
    <<"MNF", "'d'", "CFM", "'d'">>,
    <<"MNF", "in", "CFM", "'b'">> }

ProcessTierTexts == ProcessConsoleErrorsFrom(TierTexts)

NextTiers == ProcessTierTexts \/ Tick

SpecTiers == Init /\ [][NextTiers]_vars

\* reports of one missing module that start differently (one from the
\* browser, one that holds the start of another past ContextLen), and a
\* report of a second module
ContextTexts ==
  { <<"MNF", "'a'">>,
    <<"x", "MNF", "'a'", "webpack-internal:">>,
    <<"y", "MNF", "'a'">>,
    <<"z", "MNF", "'a'", "x", "MNF">>,
    <<"w", "MNF", "'a'">>,
    <<"MNF", "'b'">> }

ProcessContextTexts == ProcessConsoleErrorsFrom(ContextTexts)

NextContext == ProcessContextTexts \/ Tick

SpecContext == Init /\ [][NextContext]_vars

(***************************************************************************)
(* ChatAlert: what the component makes of an alert's content               *)
(*                                                                         *)
(* Further tokens.  A token of PluginTags is "[[plugin:<tool>:<name>]", a  *)
(* token of FileTokens "<file>:", a token of MessageTokens the message of  *)
(* a syntax error and a token of LocationTokens its "(<line>:<col>)".      *)
(* "Error:CFM" is "Error: Cannot find module", "npmWARNdeprecated" is "npm *)
(* WARN deprecated old@1.0.0: gone", "npmWARN:" is "npm WARN config: note" *)
(* and "ENOENT" is "ENOENT: no such file or directory".                    *)
(***************************************************************************)
PluginTags == {"[[plugin:vite:react-babel]", "[[plugin:x:react-babel]"}
\* the tags /\[\[plugin:vite:.*\]/ matches
VitePluginTags == {"[[plugin:vite:react-babel]"}
FileTokens == {"/home/p/App.tsx:", "/home/p/Component.tsx:"}
MessageTokens == {"Unterminated template.", "Unexpected token"}
LocationTokens == {"(154:3)", "(42:15)"}

\* the capture group ([^:]+) before the colon
FileOf(token) ==
  CASE token = "/home/p/App.tsx:" -> "/home/p/App.tsx"
    [] token = "/home/p/Component.tsx:" -> "/home/p/Component.tsx"
    [] OTHER -> ""

\* parseInt of the capture groups (\d+)
LineOf(token) == IF token = "(154:3)" THEN 154 ELSE IF token = "(42:15)" THEN 42 ELSE 0
ColumnOf(token) == IF token = "(154:3)" THEN 3 ELSE IF token = "(42:15)" THEN 15 ELSE 0

\* the capture group ([^(]+), trimmed
MessageOf(token) == token

PreviewErrorInfo(filePath, line, column, errorMessage) ==
  [filePath |-> filePath, line |-> line, column |-> column, errorType |-> "syntax",
   errorMessage |-> errorMessage, severity |-> "error"]

\* the null result
NoPreviewError == PreviewErrorInfo("", 0, 0, "")

\* the positions where tag, file, message and location follow each other
SyntaxErrorsAt(content, tags, messages) ==
  {k \in 1..(Len(content) - 3) :
     /\ content[k] \in tags
     /\ content[k + 1] \in FileTokens
     /\ content[k + 2] \in messages
     /\ content[k + 3] \in LocationTokens}

\* getPreviewErrorInfo: the unterminated template first, then any syntax error
getPreviewErrorInfo(content) ==
  LET unterminated == SyntaxErrorsAt(content, VitePluginTags, {"Unterminated template."})
      syntax == SyntaxErrorsAt(content, VitePluginTags, MessageTokens)
  IN  IF unterminated # {}
      THEN PreviewErrorInfo(FileOf(content[Min(unterminated) + 1]),
                            LineOf(content[Min(unterminated) + 3]),
                            ColumnOf(content[Min(unterminated) + 3]), "Unterminated template")
      ELSE IF syntax # {}
      THEN PreviewErrorInfo(FileOf(content[Min(syntax) + 1]), LineOf(content[Min(syntax) + 3]),
                            ColumnOf(content[Min(syntax) + 3]), MessageOf(content[Min(syntax) + 2]))
      ELSE NoPreviewError

\* the codes /npm ERR! code ([A-Z_]+)/ finds
NpmCodes == {"E404", "ERESOLVE", "EACCES", "ENOTFOUND"}

\* the word is @scope/name@version
ScopedWord(token) == SplitAt(token)[1] = "" /\ Len(SplitAt(token)) >= 3

\* getNpmErrorInfo: the module name of the first pattern of the list that
\* matches, "" for null
getNpmErrorInfo(content) ==
  LET after(token) == {k \in 1..(Len(content) - 1) : content[k] = token}
      reports == {k \in 1..(Len(content) - 2) :
                    content[k] = "404" /\ content[k + 2] = "notInRegistry"}
  IN  IF \E k \in 1..(Len(content) - 1) :
            content[k] = "@my-scope/my-lib@2.0.0" /\ content[k + 1] = "notInRegistry"
      THEN "@my-scope/my-lib"
      ELSE IF \E k \in after("Error:CFM") : content[k + 1] \in QuotedNames
      THEN NameOf(content[Min({k \in after("Error:CFM") : content[k + 1] \in QuotedNames}) + 1])
      ELSE IF \E k \in 1..Len(content) : content[k] \in NpmCodes
      THEN content[Min({k \in 1..Len(content) : content[k] \in NpmCodes})]
      ELSE IF Includes(content, "npmWARNdeprecated") THEN "deprecated old@1.0.0"
      ELSE IF Includes(content, "npmWARN:") THEN "config"
      ELSE IF Includes(content, "ENOENT") THEN "file-system"
      ELSE IF \E k \in after("NMV") : Versioned(content[k + 1])
      THEN SplitAt(content[Min({k \in after("NMV") : Versioned(content[k + 1])}) + 1])[1]
      ELSE IF \E k \in reports : ScopedWord(content[k + 1])
      THEN "@" \o SplitAt(content[Min({k \in reports : ScopedWord(content[k + 1])}) + 1])[2]
      ELSE IF \E k \in reports : Unscoped(content[k + 1])
      THEN SplitAt(content[Min({k \in reports : Unscoped(content[k + 1])}) + 1])[1]
      ELSE ""

\* isNpmInstallOutput of the component (the service has its own, above)
isInstallOutput(content) ==
  \/ Includes(content, "preloadMetadata")
  \/ \E k \in 1..Len(content) : content[k] \in {"npmWARN", "npmWARNdeprecated", "npmWARN:"}
  \/ (\E k \in 1..Len(content) : content[k] \in NpmWords \cup {"npmWARNdeprecated", "npmWARN:"})
       /\ Includes(content, "packagesFrom")

\* what filteredAlerts holds for an alert with the content: the alert as an
\* npm error, as a preview error, as it is, or nothing
Shown(content) ==
  IF content # <<>> /\ isInstallOutput(content) THEN "hidden"
  ELSE IF getNpmErrorInfo(content) # "" THEN "npm"
  ELSE IF getPreviewErrorInfo(content) # NoPreviewError THEN "preview"
  ELSE "plain"

\* the contents of the alerts the component is given
ChatContents ==
  { <<"[[plugin:vite:react-babel]", "/home/p/App.tsx:", "Unterminated template.", "(154:3)">>,
    <<"[[plugin:x:react-babel]", "/home/p/App.tsx:", "Unterminated template.", "(154:3)">>,
    <<"[[plugin:vite:react-babel]", "/home/p/Component.tsx:", "Unexpected token", "(42:15)">>,
    <<"x", "[[plugin:vite:react-babel]", "/home/p/Component.tsx:", "Unexpected token", "(42:15)",
      "[[plugin:vite:react-babel]", "/home/p/App.tsx:", "Unterminated template.", "(154:3)">>,
    <<"Compiled successfully">>,
    <<"Error:CFM", "'a'">>,
    <<"E404", "404NotFound", "404", "lodash@1.0.0", "notInRegistry">>,
    <<"npmWARNdeprecated", "packagesFrom">>,
    <<>> }

\* an alert with the content enters the store and the component renders it
ChatAlert ==
  \E content \in ChatContents, severity \in {"error", "warning", "info"} :
    /\ created < MaxCreated
    /\ SetStore(createAlert(Store, [id |-> Undefined, type |-> "chat", severity |-> severity,
                                    timestamp |-> Undefined, actionable |-> Missing,
                                    source |-> "terminal", suggestedAction |-> Missing,
                                    moduleName |-> ""], now))
    /\ lastOp' = Op("ChatAlert", NoDraft, Undefined, content, Shown(content), NoAlert)
    /\ UNCHANGED <<now, calls, previewVars, shellVars, chatVars>>

NextChat == ChatAlert \/ ClearOne

SpecChat == Init /\ [][NextChat]_vars

(***************************************************************************)
(* ChatAlert's dismissal: handleDismiss and the auto-dismiss effect.  The  *)
(* component's alerts are the store's active alerts; a timer is the alert  *)
(* id it was set for and the time it is due.                               *)
(***************************************************************************)
DismissDrafts == {Draft(Undefined, severity, Undefined) : severity \in {"info", "error"}}

\* the effect, which runs when alerts is a new array: its cleanup has cleared
\* every timer it had set, and the body sets a 5 s timer for every info alert
\* of alerts
AutoDismissEffect(alerts, t) ==
  {[id |-> alerts[i].id, due |-> t + AutoDismissMs] :
     i \in {k \in 1..Len(alerts) : alerts[k].severity = "info"}}

\* the times the component first rendered the alerts, the new ones added
FirstShownWith(shown, alerts, t) ==
  shown \o SelectSeq([i \in 1..Len(alerts) |-> <<alerts[i].id, t>>],
                     LAMBDA entry : ~MapHas(shown, entry[1]))

\* handleDismiss(alertId) up to its setTimeout
handleDismiss(alertId, t) ==
  /\ dismissingIds' = dismissingIds \cup {alertId}
  /\ dismissTimers' = dismissTimers \cup {[id |-> alertId, due |-> t + DismissAnimationMs]}

\* an alert enters the store; when the atom was set the component renders
\* the new array and the effect runs again
ShowAlert ==
  \E alertData \in DismissDrafts :
    /\ created < MaxShown
    /\ \E st \in {createAlert(Store, alertData, now)} :
         /\ SetStore(st)
         /\ autoDismissTimers' =
              IF st.notified = <<>> THEN autoDismissTimers
              ELSE AutoDismissEffect(st.active, now)
         /\ firstShown' = FirstShownWith(firstShown, st.active, now)
         /\ lastOp' = Op("ChatAlert", alertData, Undefined, <<>>,
                         IF st.notified = <<>> THEN "rejected" ELSE "shown", st.returned)
    /\ UNCHANGED <<now, calls, previewVars, shellVars, dismissingIds, dismissTimers>>

\* the user closes an alert that is not on its way out: handleDismiss from
\* the button
DismissClick ==
  \E i \in 1..Len(activeAlerts) :
    /\ activeAlerts[i].id \notin dismissingIds
    /\ handleDismiss(activeAlerts[i].id, now)
    /\ notified' = <<>>
    /\ lastOp' = Op("handleDismiss", NoDraft, activeAlerts[i].id, <<>>, "click", NoAlert)
    /\ UNCHANGED <<activeAlerts, alertHistory, created, recentModuleErrors, cacheVars, now, calls,
                   previewVars, shellVars, autoDismissTimers, firstShown>>

\* a timer of the effect is due: handleDismiss(alert.id)
AutoDismissTimeout ==
  \E timer \in autoDismissTimers :
    /\ timer.due = now
    /\ handleDismiss(timer.id, now)
    /\ autoDismissTimers' = autoDismissTimers \ {timer}
    /\ notified' = <<>>
    /\ lastOp' = Op("handleDismiss", NoDraft, timer.id, <<>>, "auto", NoAlert)
    /\ UNCHANGED <<activeAlerts, alertHistory, created, recentModuleErrors, cacheVars, now, calls,
                   previewVars, shellVars, firstShown>>

\* handleDismiss's callback: clearAlert(alertId), the id leaves dismissingIds,
\* and the component renders the array clearAlert has set
DismissTimeout ==
  \E timer \in dismissTimers :
    /\ timer.due = now
    /\ \E st \in {clearAlert(Store, timer.id)} :
         /\ SetStore(st)
         /\ autoDismissTimers' = AutoDismissEffect(st.active, now)
    /\ dismissingIds' = dismissingIds \ {timer.id}
    /\ dismissTimers' = dismissTimers \ {timer}
    /\ lastOp' = Op("clearAlert", NoDraft, timer.id, <<>>, "dismissed", NoAlert)
    /\ UNCHANGED <<now, calls, previewVars, shellVars, firstShown>>

DueTimes == {timer.due : timer \in autoDismissTimers \cup dismissTimers}

\* time passes, up to the next timer that is due
Elapse ==
  /\ \A due \in DueTimes : due > now
  /\ \E t \in {Min(DueTimes \cup {now + TickMs})} :
       /\ t <= MaxDismissTime
       /\ now' = t
  /\ notified' = <<>>
  /\ lastOp' = Op("tick", NoDraft, Undefined, <<>>, "none", NoAlert)
  /\ UNCHANGED <<activeAlerts, alertHistory, created, recentModuleErrors, cacheVars, calls,
                 previewVars, shellVars, chatVars>>

NextDismiss == ShowAlert \/ DismissClick \/ AutoDismissTimeout \/ DismissTimeout \/ Elapse

SpecDismiss == Init /\ [][NextDismiss]_vars

(***************************************************************************)
(* Properties of the alert store                                           *)
(***************************************************************************)
Range(s) == {s[i] : i \in 1..Len(s)}
Seqs(s) == {s[i].seq : i \in 1..Len(s)}
AllCritical(s) == \A i \in 1..Len(s) : s[i].severity = "critical"

\* this step is a createAlert call made directly by a caller
CreateStep == lastOp'.op = "createAlert" /\ created' = created + 1
\* the severity the created alert gets: 'error' when the caller gives none
GivenSeverity == IF lastOp'.alertData.severity = NoSeverity THEN "error" ELSE lastOp'.alertData.severity
\* the alert built by this step is number created' and is the one returned
NewAlert == lastOp'.alert

\* C1: after any sequence of createAlert, clearAlert and
\* createModuleErrorAlerts calls the active set holds at most
\* maxActiveAlerts alerts.
C1_ActiveAtMostCapacity == Len(activeAlerts) <= maxActiveAlerts

\* a module-error batch arrived at a full active set and left it full
C1_Witness ==
  /\ lastOp.op = "createModuleErrorAlerts"
  /\ Len(activeAlerts) = maxActiveAlerts
  /\ created > maxActiveAlerts
  /\ activeAlerts[Len(activeAlerts)].seq = created

\* C2: a non-critical alert never displaces a critical one: createAlert with
\* a non-critical severity while every one of the maxActiveAlerts active
\* slots is critical leaves the active set exactly as it was, and the new
\* alert is recorded in History only.
C2_NonCriticalNeverDisplacesCritical ==
  [][(/\ CreateStep
      /\ Len(activeAlerts) = maxActiveAlerts
      /\ AllCritical(activeAlerts)
      /\ GivenSeverity # "critical")
     => (/\ activeAlerts' = activeAlerts
         /\ alertHistory'[1] = NewAlert
         /\ NewAlert.seq = created'
         /\ NewAlert.severity = GivenSeverity
         /\ created' \notin Seqs(activeAlerts'))]_vars

\* an info alert was kept out of a full, all-critical active set
C2_Witness ==
  /\ lastOp.op = "createAlert"
  /\ lastOp.alertData.severity = "info"
  /\ Len(activeAlerts) = maxActiveAlerts
  /\ AllCritical(activeAlerts)
  /\ alertHistory[1].severity = "info"
  /\ alertHistory[1].seq = created
  /\ created \notin Seqs(activeAlerts)

\* C3: createAlert with severity critical while every active slot is critical
\* removes the earliest-inserted active alert and appends the new one: the
\* count does not grow and every active alert is still critical.
C3_CriticalEvictsOldestCritical ==
  [][(/\ CreateStep
      /\ Len(activeAlerts) = maxActiveAlerts
      /\ AllCritical(activeAlerts)
      /\ GivenSeverity = "critical")
     => (/\ Len(activeAlerts') = Len(activeAlerts)
         /\ AllCritical(activeAlerts')
         /\ activeAlerts'[Len(activeAlerts')] = NewAlert
         /\ NewAlert.seq = created'
         /\ \E oldest \in Seqs(activeAlerts) :
              /\ \A n \in Seqs(activeAlerts) : oldest <= n
              /\ Seqs(activeAlerts') = (Seqs(activeAlerts) \ {oldest}) \cup {created'}
         /\ \A i \in 1..(Len(activeAlerts) - 1) : activeAlerts'[i] = activeAlerts[i + 1])]_vars

\* a critical alert took the place of the oldest of a full set of critical alerts
C3_Witness ==
  /\ lastOp.op = "createAlert"
  /\ lastOp.alertData.severity = "critical"
  /\ Len(activeAlerts) = maxActiveAlerts
  /\ AllCritical(activeAlerts)
  /\ activeAlerts[maxActiveAlerts].seq = created
  /\ created > maxActiveAlerts
  /\ \A n \in Seqs(activeAlerts) : n > 1
  /\ \E i \in 1..Len(alertHistory) :
       alertHistory[i].seq \notin Seqs(activeAlerts) /\ alertHistory[i].severity = "critical"

\* C4: createAlert on a full active set with at least one non-critical alert
\* removes exactly the first non-critical one, appends the new alert last and
\* keeps every other alert in its relative order.
C4_FirstNonCriticalEvicted ==
  [][(/\ CreateStep
      /\ Len(activeAlerts) = maxActiveAlerts
      /\ ~AllCritical(activeAlerts))
     => \E k \in 1..Len(activeAlerts) :
          /\ activeAlerts[k].severity # "critical"
          /\ \A j \in 1..(k - 1) : activeAlerts[j].severity = "critical"
          /\ Len(activeAlerts') = Len(activeAlerts)
          /\ \A i \in 1..(k - 1) : activeAlerts'[i] = activeAlerts[i]
          /\ \A i \in k..(Len(activeAlerts) - 1) : activeAlerts'[i] = activeAlerts[i + 1]
          /\ activeAlerts'[Len(activeAlerts)] = NewAlert
          /\ NewAlert.seq = created']_vars

\* a full set with a critical alert ahead of a non-critical one lost the
\* non-critical one and kept the critical one in front
C4_Witness ==
  /\ lastOp.op = "createAlert"
  /\ Len(activeAlerts) = maxActiveAlerts
  /\ activeAlerts[Len(activeAlerts)].seq = created
  /\ created > maxActiveAlerts
  /\ activeAlerts[1].severity = "critical"
  /\ \E i \in 1..Len(alertHistory) :
       /\ alertHistory[i].seq \notin Seqs(activeAlerts)
       /\ alertHistory[i].severity # "critical"
       /\ alertHistory[i].seq > activeAlerts[1].seq

\* C5: after n createAlert calls History is exactly the min(n, maxHistorySize)
\* most recently created alerts, newest first, whatever became of them in
\* the active set.
C5_HistoryIsLatestNewestFirst ==
  /\ [](/\ Len(alertHistory) = (IF created < maxHistorySize THEN created ELSE maxHistorySize)
        /\ \A i \in 1..Len(alertHistory) : alertHistory[i].seq = created - i + 1)
  /\ [][CreateStep => alertHistory'[1] = NewAlert /\ NewAlert.seq = created']_vars

\* more alerts were created than History holds, and History holds alerts
\* that were kept out of, evicted from or cleared from the active set
C5_Witness ==
  /\ created > maxHistorySize
  /\ Len(alertHistory) = maxHistorySize
  /\ \E i \in 1..Len(alertHistory) : alertHistory[i].seq \notin Seqs(activeAlerts)
  /\ lastOp.op = "clearAlert"

C7_IdsUnique ==
  \A a, b \in Range(activeAlerts) \cup Range(alertHistory) : a.id = b.id => a.seq = b.seq

\* C8: the subscribers of the active set are told of every transition, in
\* order, each time with the active set as it is after that transition.
OneTransition(before, after) ==
  \/ after = <<>>
  \/ \E id \in ClearIds : after = SelectSeq(before, LAMBDA a : a.id # id)
  \/ /\ after # <<>>
     /\ after[Len(after)].seq \notin Seqs(before)
     /\ \/ SubSeq(after, 1, Len(after) - 1) = before
        \/ \E k \in 1..Len(before) : SubSeq(after, 1, Len(after) - 1) = Splice(before, k)

C8_SubscribersSeeEveryTransition ==
  [][/\ activeAlerts' # activeAlerts => notified' # <<>>
     /\ notified' # <<>> =>
          /\ notified'[Len(notified')] = activeAlerts'
          /\ OneTransition(activeAlerts, notified'[1])
          /\ \A i \in 1..(Len(notified') - 1) :
               /\ OneTransition(notified'[i], notified'[i + 1])
               /\ notified'[i] # notified'[i + 1]]_vars

\* one batch of two module errors produced two notifications, the second
\* carrying both new alerts
C8_Witness ==
  /\ lastOp.op = "createModuleErrorAlerts"
  /\ Len(notified) = 2
  /\ notified[2] = activeAlerts
  /\ notified[1] # notified[2]
(***************************************************************************)
(* Properties of the dedup tiers                                           *)
(***************************************************************************)
\* this step is a processConsoleErrors call on a text that has the phrase
ConsoleStep == lastOp'.op = "processConsoleErrors" /\ Includes(lastOp'.text, "MNF")

\* the tier holds an entry for the key that is younger than the window
YoungEntry(tier, key, window) ==
  \E i \in 1..Len(tier) : tier[i][1] = key /\ now - tier[i][2] < window

\* the module name and the coarse key of the text of this step
StepModule == moduleNameMatch(lastOp'.text)
StepSignature ==
  IF StepModule # "" THEN <<"module-error:", StepModule>> ELSE SubSeq(lastOp'.text, 1, SignatureLen)

\* one of the two tiers holds the key of this step's text within its window
StepSuppressed ==
  \/ StepModule # "" /\ YoungEntry(moduleErrorCache, StepModule, ModuleWindowMs)
  \/ YoungEntry(lastProcessedErrors, StepSignature, SignatureWindowMs)

\* the step went past both tiers: it wrote the coarse tier
StepAdmitted == lastProcessedErrors' # lastProcessedErrors

\* C9: processConsoleErrors admits an occurrence only if neither the coarse
\* tier (1 s) nor the module tier (5 s) holds an entry for its key younger
\* than the tier's window; a suppressed occurrence creates no alert and an
\* occurrence whose entries have all aged out is admitted.
C9_AdmittedOnlyWhenBothTiersStale ==
  [][ConsoleStep
     => (/\ StepAdmitted <=> ~StepSuppressed
         /\ StepSuppressed => (/\ created' = created
                               /\ activeAlerts' = activeAlerts
                               /\ alertHistory' = alertHistory
                               /\ lastProcessedErrors' = lastProcessedErrors
                               /\ moduleErrorCache' = moduleErrorCache))]_vars

\* a module seen at least three times, first more than the long window ago,
\* has just been admitted again (its earlier repeat having been suppressed)
C9_Witness ==
  /\ lastOp.op = "processConsoleErrors"
  /\ lastOp.outcome = "admitted"
  /\ moduleNameMatch(lastOp.text) # ""
  /\ \E i \in 1..Len(errorContextCache) :
       /\ errorContextCache[i][1] = moduleNameMatch(lastOp.text)
       /\ errorContextCache[i][2].count >= 3
       /\ errorContextCache[i][2].firstSeen + ModuleWindowMs <= now
       /\ errorContextCache[i][2].lastSeen = now
  /\ MapGet(moduleErrorCache, moduleNameMatch(lastOp.text)) = now

\* C10: every suppressed occurrence with an extractable module name M, by
\* either tier, increments ContextAccumulator[M].count by one and sets its
\* lastSeen to the current time.
C10_SuppressionKeepsCounting ==
  [][(ConsoleStep /\ StepModule # "" /\ StepSuppressed)
     => \E i \in 1..Len(errorContextCache') :
          /\ errorContextCache'[i][1] = StepModule
          /\ errorContextCache'[i][2].lastSeen = now
          /\ \E j \in 1..Len(errorContextCache) :
               /\ errorContextCache[j][1] = StepModule
               /\ errorContextCache'[i][2].count = errorContextCache[j][2].count + 1]_vars
(***************************************************************************)
(* Properties of the pipeline entry point                                  *)
(***************************************************************************)
\* this step is a call of an entry point that reaches createModuleErrorAlerts
EntryStep == lastOp'.op \in {"processConsoleErrors", "createModuleErrorAlerts"}

\* the module names the active module-error alerts carry
ActiveModuleNames(active) ==
  {active[i].moduleName : i \in {j \in 1..Len(active) : active[j].type = "module-error"}}

\* the alerts built by the step, as History and the active set show them
BuiltByStep ==
  {a \in Range(alertHistory') \cup Range(activeAlerts') : a.seq > created}

\* C11: the pipeline entry point creates no alert for a group whose module
\* name is carried by an alert that is in the active set when the entry point
\* is called, also when every dedup window for that name has expired.
C11_NoAlertWhileOneIsActive ==
  [][EntryStep => \A a \in BuiltByStep : a.moduleName \notin ActiveModuleNames(activeAlerts)]_vars

\* the text of a module whose alert is still active went past all three
\* caches, each holding the module with an expired entry, and no alert was built
C11_Witness ==
  /\ lastOp.op = "processConsoleErrors"
  /\ lastOp.outcome = "admitted"
  /\ now >= ModuleWindowMs
  /\ processModuleErrors(lastOp.text) # <<>>
  /\ MapHas(recentModuleErrors, Slice(lastOp.text, SignatureLen))
  /\ MapGet(recentModuleErrors, Slice(lastOp.text, SignatureLen)) = now
  /\ \A g \in Range(processModuleErrors(lastOp.text)) :
       /\ g.moduleName \in ActiveModuleNames(activeAlerts)
       /\ g.moduleName = moduleNameMatch(lastOp.text)
  /\ \A a \in Range(activeAlerts) \cup Range(alertHistory) : a.timestamp + ModuleWindowMs <= now
  /\ \E i \in 1..Len(errorContextCache) :
       /\ errorContextCache[i][1] = moduleNameMatch(lastOp.text)
       /\ errorContextCache[i][2].count >= 2
       /\ errorContextCache[i][2].firstSeen + ModuleWindowMs <= now

\* the report of the claim: "npm ERR! 404 @my-scope/my-lib@2.0.0 is not in
\* the npm registry"
ScopedPackageReport == <<"404", "@my-scope/my-lib@2.0.0", "notInRegistry">>

\* the alerts the store has for the module name
AlertsNaming(moduleName) ==
  {a.seq : a \in {b \in Range(alertHistory) \cup Range(activeAlerts) : b.moduleName = moduleName}}

\* C12: the report submitted three times within one second creates exactly
\* one alert, and that alert's module name is '@my-scope/my-lib'.
C12_ScopedPackageAlertedOnce ==
  (/\ Len(submitted) >= 3
   /\ \A i \in (Len(submitted) - 2)..Len(submitted) : submitted[i].text = ScopedPackageReport
   /\ submitted[Len(submitted)].time - submitted[Len(submitted) - 2].time < 1000)
  => Cardinality(AlertsNaming("@my-scope/my-lib")) = 1
(***************************************************************************)
(* Properties of the debounced error processor                             *)
(***************************************************************************)
\* this step hands a chunk to debouncedProcessErrors
ChunkStep == lastOp'.op = "preview-message" /\ lastOp'.outcome = "debounced"
\* this step runs the callback of a timeout
TimeoutStep == lastOp'.op = "errorProcessingTimeout"
\* the chunk handed in last
LastChunk == submitted[Len(submitted)]

\* C13: a new chunk cancels the pending 300 ms timer and starts a new one, so
\* classification runs only after 300 ms without a new chunk, and at most
\* once per burst of chunks.
C13_ClassifiedOnceOutputIsQuiet ==
  [][/\ ChunkStep
          => /\ Cardinality(timers') = 1
             /\ \A tm \in timers' : /\ tm.due = now + 300
                                    /\ tm.errorText = lastOp'.text
                                    /\ tm \notin timers
     /\ TimeoutStep
          => /\ submitted # <<>>
             /\ now - LastChunk.time >= 300
             /\ timers' = {}]_vars

\* two chunks arrived less than 300 ms apart and one classification ran,
\* 300 ms or more after the second
C13_Witness ==
  /\ lastOp.op = "errorProcessingTimeout"
  /\ lastOp.outcome = "processed"
  /\ Len(submitted) >= 2
  /\ submitted[Len(submitted)].time - submitted[Len(submitted) - 1].time < 300
  /\ submitted[Len(submitted)].time > submitted[Len(submitted) - 1].time
  /\ now - submitted[Len(submitted)].time >= 300
  /\ timers = {}
  /\ Len(dispatched) = 1

\* C14: each stream has its own debounce timer: a chunk arriving on one
\* stream never cancels or delays the pending timer of another stream.
C14_StreamsHaveOwnTimers ==
  [][ChunkStep
     => \A tm \in timers : tm.stream # submitted'[Len(submitted')].stream => tm \in timers']_vars

\* C15: an exception thrown during classification or grouping never
\* propagates: at every entry point it is caught and turned into a fallback
\* alert of type processing-error, source system, low severity, not
\* actionable, with the original text as content.
C15_FailureBecomesFallbackAlert ==
  [][lastOp'.outcome = "threw"
     => /\ dispatched' = Append(dispatched, FallbackAlert(lastOp'.text))
        /\ FallbackAlert(lastOp'.text).type = "processing-error"
        /\ FallbackAlert(lastOp'.text).source = "system"
        /\ FallbackAlert(lastOp'.text).severity = "info"
        /\ FallbackAlert(lastOp'.text).actionable = FALSE
        /\ FallbackAlert(lastOp'.text).content = lastOp'.text]_vars
(***************************************************************************)
(* Properties of cache compaction                                          *)
(***************************************************************************)
\* this step is a call of processConsoleErrors that passed both tiers
AdmittedStep == lastOp'.op = "processConsoleErrors" /\ lastOp'.outcome = "admitted"

\* post is pre when pre has at most max entries; otherwise post is keep of
\* pre's entries, and none it leaves out is more recent than one it holds
MostRecentOf(pre, post, max, keep) ==
  IF Len(pre) > max
  THEN /\ Len(post) = keep
       /\ Range(post) \subseteq Range(pre)
       /\ \A kept \in Range(post) : \A dropped \in Range(pre) \ Range(post) :
            dropped[2] <= kept[2]
  ELSE post = pre

\* C16: a time-keyed tier that grows past its maximum is compacted to
\* exactly the entries with the most recent timestamps, as many as the tier
\* keeps, so after every call each time-keyed tier holds at most its maximum.
C16_TimeTiersKeepMostRecent ==
  [][/\ Len(lastProcessedErrors') <= TierMaxEntries
     /\ Len(moduleErrorCache') <= TierMaxEntries
     /\ Len(recentModuleErrors') <= RecentMaxEntries
     /\ AdmittedStep
          => /\ MostRecentOf(MapSet(lastProcessedErrors, errorSignature(lastOp'.text), now),
                             lastProcessedErrors', TierMaxEntries, TierKeepEntries)
             /\ moduleNameMatch(lastOp'.text) # ""
                  => MostRecentOf(MapSet(moduleErrorCache, moduleNameMatch(lastOp'.text), now),
                                  moduleErrorCache', TierMaxEntries, TierKeepEntries)
             /\ recentModuleErrors' # recentModuleErrors
                  => MostRecentOf(MapSet(recentModuleErrors, Slice(lastOp'.text, SignatureLen), now),
                                  recentModuleErrors', RecentMaxEntries, RecentKeepEntries)]_vars

\* one more module than a tier holds was admitted, at different times and
\* inside the module window: all three tiers were just compacted
C16_Witness ==
  /\ lastOp.op = "processConsoleErrors"
  /\ lastOp.outcome = "admitted"
  /\ calls = TierMaxEntries + 1
  /\ created = calls
  /\ now > 0
  /\ now < ModuleWindowMs
  /\ Len(lastProcessedErrors) = TierKeepEntries
  /\ Len(moduleErrorCache) = TierKeepEntries
  /\ Len(recentModuleErrors) = RecentKeepEntries
  /\ moduleErrorCache[1][2] > moduleErrorCache[Len(moduleErrorCache)][2]

\* post is pre when pre has at most max entries; otherwise post is keep of
\* pre's entries, and none it leaves out has a higher count than one it holds
MostFrequentOf(pre, post, max, keep) ==
  IF Len(pre) > max
  THEN /\ Len(post) = keep
       /\ Range(post) \subseteq Range(pre)
       /\ \A kept \in Range(post) : \A dropped \in Range(pre) \ Range(post) :
            dropped[2].count <= kept[2].count
  ELSE post = pre

\* the accumulator of the name before this call, a new one if there is none
ContextInfoOf(moduleName) ==
  IF MapHas(errorContextCache, moduleName)
  THEN MapGet(errorContextCache, moduleName) ELSE NewContextInfo(now)

\* C17: a context cache that grows past its maximum is compacted to the
\* accumulators with the highest count, as many as it keeps (by frequency,
\* not recency), so after every call it holds at most its maximum.
C17_ContextCacheKeepsMostFrequent ==
  [][/\ Len(errorContextCache') <= ContextMaxEntries
     /\ (AdmittedStep /\ moduleNameMatch(lastOp'.text) # "")
          => MostFrequentOf(MapSet(errorContextCache, moduleNameMatch(lastOp'.text),
                                   Accumulate(ContextInfoOf(moduleNameMatch(lastOp'.text)),
                                              lastOp'.text, now)),
                            errorContextCache', ContextMaxEntries, ContextKeepEntries)]_vars

\* the call just admitted a module whose accumulator the compaction dropped
\* at once, keeping one seen more often and less recently
C17_Witness ==
  /\ lastOp.op = "processConsoleErrors"
  /\ lastOp.outcome = "admitted"
  /\ moduleNameMatch(lastOp.text) # ""
  /\ ~MapHas(errorContextCache, moduleNameMatch(lastOp.text))
  /\ Len(errorContextCache) = ContextKeepEntries
  /\ errorContextCache[1][2].count >= 2
  /\ errorContextCache[1][2].lastSeen < now

(***************************************************************************)
(* Properties of the context accumulators                                  *)
(***************************************************************************)
\* this step is a call of processConsoleErrors that updates the accumulator
\* of the text's module
AccumulateStep ==
  /\ lastOp'.op = "processConsoleErrors"
  /\ moduleNameMatch(lastOp'.text) # ""
  /\ \/ lastOp'.outcome = "admitted"
     \/ lastOp'.outcome = "module-duplicate"
          /\ MapHas(errorContextCache, moduleNameMatch(lastOp'.text))
  /\ MapHas(errorContextCache', moduleNameMatch(lastOp'.text))

\* the stored contexts of the text's module before the call
StoredContexts == ContextInfoOf(moduleNameMatch(lastOp'.text)).contexts

\* a stored context contains the start of the new one
NearDuplicate ==
  \E i \in 1..Len(StoredContexts) :
    IncludesRun(StoredContexts[i], Slice(Slice(lastOp'.text, ContextLen), ContextPrefixLen))

\* C18: every accumulator holds at most MaxContexts contexts at all times:
\* when a new context arrives that is not a near-duplicate of a stored one
\* and MaxContexts are stored, the oldest is dropped and the new one kept.
C18_ContextsCappedOldestDropped ==
  [][/\ \A i \in 1..Len(errorContextCache') :
          Len(errorContextCache'[i][2].contexts) <= MaxContexts
     /\ (AccumulateStep /\ ~NearDuplicate /\ Len(StoredContexts) >= MaxContexts)
          => MapGet(errorContextCache', moduleNameMatch(lastOp'.text)).contexts
               = Append(Tail(StoredContexts), Slice(lastOp'.text, ContextLen))]_vars

\* the report from the browser was the first of MaxContexts + 1 reports of
\* the module, each with a context of its own: its context is gone, the
\* later ones are stored, the last report's last
C18_Witness ==
  /\ lastOp.op = "processConsoleErrors"
  /\ MapHas(errorContextCache, "a")
  /\ moduleNameMatch(lastOp.text) = "a"
  /\ MapGet(errorContextCache, "a").count = MaxContexts + 1
  /\ "browser" \in MapGet(errorContextCache, "a").sourceTypes
  /\ Len(MapGet(errorContextCache, "a").contexts) = MaxContexts
  /\ \A i \in 1..MaxContexts :
       ~Includes(MapGet(errorContextCache, "a").contexts[i], "x")
  /\ MapGet(errorContextCache, "a").contexts[MaxContexts] = Slice(lastOp.text, ContextLen)

(***************************************************************************)
(* Properties of the grouper                                               *)
(***************************************************************************)
\* the module groups of a text, and its records of one module name
ModuleGroups(text) == SelectSeq(processModuleErrors(text), LAMBDA g : g.type = "module")
RecordsNamed(text, moduleName) ==
  SelectSeq(detectModuleNotFoundErrors(text), LAMBDA e : e.moduleName = moduleName)
NamesIn(text) == {e.moduleName : e \in Range(detectModuleNotFoundErrors(text))}
GroupsNamed(text, moduleName) ==
  {g \in 1..Len(ModuleGroups(text)) : ModuleGroups(text)[g].moduleName = moduleName}
\* the non-empty file paths of the records
PathsOf(records) == {e.filePath : e \in Range(records)} \ {""}

\* one group for the name, counting its records, the first of them primary
OneGroupCountingAll(text, moduleName) ==
  /\ Cardinality(GroupsNamed(text, moduleName)) = 1
  /\ \A g \in GroupsNamed(text, moduleName) :
       /\ ModuleGroups(text)[g].errorCount = Len(RecordsNamed(text, moduleName))
       /\ ModuleGroups(text)[g].primaryError = RecordsNamed(text, moduleName)[1]

\* C19 as stated: the N records of a text that share module name M yield
\* exactly one group for M with errorCount N, the first of them as primary
\* record, and the deduplicated set of their non-empty paths as filesAffected.
C19_GroupListsPathsOfItsRecords ==
  lastOp.op = "executeCommand"
    => \A moduleName \in NamesIn(lastOp.text) :
         /\ OneGroupCountingAll(lastOp.text, moduleName)
         /\ \A g \in GroupsNamed(lastOp.text, moduleName) :
              /\ Range(ModuleGroups(lastOp.text)[g].filesAffected)
                   = PathsOf(RecordsNamed(lastOp.text, moduleName))
              /\ Len(ModuleGroups(lastOp.text)[g].filesAffected)
                   = Cardinality(PathsOf(RecordsNamed(lastOp.text, moduleName)))

\* C19 as amended: as above, but filesAffected is the placeholder Unknown
\* when none of the records has a file path.
C19_GroupListsPathsOrUnknown ==
  lastOp.op = "executeCommand"
    => \A moduleName \in NamesIn(lastOp.text) :
         /\ OneGroupCountingAll(lastOp.text, moduleName)
         /\ \A g \in GroupsNamed(lastOp.text, moduleName) :
              IF PathsOf(RecordsNamed(lastOp.text, moduleName)) = {}
              THEN ModuleGroups(lastOp.text)[g].filesAffected = <<"Unknown">>
              ELSE /\ Range(ModuleGroups(lastOp.text)[g].filesAffected)
                        = PathsOf(RecordsNamed(lastOp.text, moduleName))
                   /\ Len(ModuleGroups(lastOp.text)[g].filesAffected)
                        = Cardinality(PathsOf(RecordsNamed(lastOp.text, moduleName)))

\* a command's output held three records of one name with two different
\* paths, one of them twice, and the group was alerted
C19_Witness ==
  /\ lastOp.op = "executeCommand"
  /\ lastOp.outcome = "alerted"
  /\ \E moduleName \in NamesIn(lastOp.text) :
       /\ Len(RecordsNamed(lastOp.text, moduleName)) = 3
       /\ Cardinality(PathsOf(RecordsNamed(lastOp.text, moduleName))) = 2
       /\ \E a \in Range(activeAlerts) : a.moduleName = moduleName

\* the severity fixed for a group's variant
VariantSeverity(errorGroup) == IF errorGroup.type = "goroutine" THEN "critical" ELSE "error"

\* C20: an alert created from an alert group carries the severity fixed for
\* the group's variant: error for module-not-found groups, critical for
\* goroutine groups.
C20_AlertCarriesVariantSeverity ==
  [][lastOp'.op = "executeCommand"
     => \A a \in BuiltByStep : \A errorGroup \in Range(processModuleErrors(lastOp'.text)) :
          errorGroup.moduleName = a.moduleName
            => /\ errorGroup.severity = VariantSeverity(errorGroup)
               /\ a.severity = VariantSeverity(errorGroup)]_vars

(***************************************************************************)
(* Properties of the classifier                                            *)
(***************************************************************************)
\* the error lines of an error type
PhrasesOfType(errorType) ==
  CASE errorType = "closed_pipe" -> ClosedPipePhrases
    [] errorType = "panic" -> PanicPhrases
    [] errorType = "deadlock" -> DeadlockPhrases
    [] errorType = "general" -> GeneralPhrases
    [] OTHER -> {}

\* the block of the header at h holds an error line of the type
BlockFails(text, h, errorType) ==
  \E e \in (h + 1)..Len(text) :
    /\ text[e] \in PhrasesOfType(errorType)
    /\ \A x \in (h + 1)..e : text[x] \notin GoroutineHeaders

\* C21: the classifier's goroutine records each carry the id and the error
\* type of a failing block of the chunk, and the chunk with goroutine 42
\* (too many writes on closed pipe) and goroutine 36 (panic) gives exactly
\* the records (42, closed_pipe) and (36, panic).
C21_RecordsCarryTheirBlock ==
  lastOp.op = "executeCommand"
    => /\ \A r \in Range(detectGoroutineErrors(lastOp.text)) :
            \E h \in 1..Len(lastOp.text) :
              /\ lastOp.text[h] \in GoroutineHeaders
              /\ GoroutineId(lastOp.text[h]) = r.goroutineId
              /\ BlockFails(lastOp.text, h, r.errorType)
       /\ lastOp.text = MultipleErrorsOutput
            => [i \in 1..Len(detectGoroutineErrors(lastOp.text)) |->
                  <<detectGoroutineErrors(lastOp.text)[i].goroutineId,
                    detectGoroutineErrors(lastOp.text)[i].errorType>>]
                 = << <<"42", "closed_pipe">>, <<"36", "panic">> >>

\* the positions of the stack frames of a text, and those nearest to position i
FramesOf(text) == {j \in 1..Len(text) : text[j] \in FrameTokens}
Distance(i, j) == IF i < j THEN j - i ELSE i - j
NearestFrames(text, i) ==
  {j \in FramesOf(text) : \A other \in FramesOf(text) : Distance(i, j) <= Distance(i, other)}

\* C22: every "Cannot find module '<name>'" match yields a record with that
\* name, import type static exactly when the name starts with '.', and the
\* file, line and column of the stack frame nearest to the match.
C22_RecordHasNearestFrame ==
  lastOp.op = "executeCommand"
    => /\ Len(detectModuleNotFoundErrors(lastOp.text)) >= Cardinality(Matches(lastOp.text, "CFM"))
       /\ \A i \in Matches(lastOp.text, "CFM") :
            LET r == detectModuleNotFoundErrors(lastOp.text)[
                       Cardinality({m \in Matches(lastOp.text, "CFM") : m <= i})]
            IN  /\ r.moduleName = NameOf(lastOp.text[i + 1])
                /\ (r.importType = "static") = (NameOf(lastOp.text[i + 1]) \in RelativeNames)
                /\ FramesOf(lastOp.text) # {}
                     => \E j \in NearestFrames(lastOp.text, i) :
                          /\ r.filePath = FrameFile(lastOp.text[j])
                          /\ r.lineNumber = FrameLine(lastOp.text[j])
                          /\ r.columnNumber = FrameColumn(lastOp.text[j])

\* a package word without its version suffix
NameWithoutVersion(token) ==
  CASE token = "lodash@1.0.0" -> "lodash"
    [] token = "react@18" -> "react"
    [] token = "@my-scope/my-lib@2.0.0" -> "@my-scope/my-lib"
    [] OTHER -> token

\* the positions of the "404 <package> is not in the npm registry" lines that
\* follow "code E404" and "404 Not Found"
RegistryReports(text) ==
  {k \in 1..(Len(text) - 2) :
     /\ text[k] = "404"
     /\ text[k + 2] = "notInRegistry"
     /\ \E code \in 1..k : \E notFound \in (code + 1)..(k - 1) :
          text[code] = "E404" /\ text[notFound] = "404NotFound"}

\* C23: for a registry-404 error the extracted module name is the package
\* name without its version suffix, for unscoped and for scoped names alike.
C23_RegistryNameWithoutVersion ==
  (lastOp.op = "console.error" /\ Includes(lastOp.text, "MNF"))
    => \A k \in RegistryReports(lastOp.text) :
         \E r \in Range(detectModuleNotFoundErrors(lastOp.text)) :
           r.moduleName = NameWithoutVersion(lastOp.text[k + 1])

\* some match of one of the five module patterns exists in the text
SomeModulePattern(text) ==
  \/ \E i \in 1..(Len(text) - 1) : text[i] = "CFM" /\ text[i + 1] \in QuotedNames
  \/ \E c, n, k \in 1..Len(text) :
        /\ c < n /\ n < k /\ k + 2 <= Len(text)
        /\ text[c] = "E404" /\ text[n] = "404NotFound"
        /\ text[k] = "404" /\ Unscoped(text[k + 1]) /\ text[k + 2] = "notInRegistry"
  \/ \E c, f, d, q \in 1..Len(text) :
        /\ c < f /\ f + 1 < d /\ d < q /\ q + 1 <= Len(text)
        /\ text[c] = "ERESOLVE" /\ text[f] = "Found:" /\ Versioned(text[f + 1])
        /\ text[d] = "CouldNotResolve" /\ text[q] = "peer" /\ Versioned(text[q + 1])
  \/ \E i \in 1..(Len(text) - 1) : text[i] = "NMV" /\ Versioned(text[i + 1])
  \/ \E c, q \in 1..Len(text) :
        c < q /\ q + 1 <= Len(text) /\ text[c] = "EACCES" /\ text[q] = "path"

\* some goroutine header of the text has one of the error lines after it
SomeGoroutinePattern(text) ==
  \E h, e \in 1..Len(text) :
    /\ h < e
    /\ text[h] \in GoroutineHeaders
    /\ text[e] \in ClosedPipePhrases \cup PanicPhrases \cup DeadlockPhrases \cup GeneralPhrases

\* C25: for a text that matches none of the known error patterns the
\* classifier returns no records and processModuleErrors returns null: no
\* groups, and the command raises no alert.
C25_NoPatternNoRecords ==
  (/\ lastOp.op = "executeCommand"
   /\ ~SomeModulePattern(lastOp.text)
   /\ ~SomeGoroutinePattern(lastOp.text))
    => /\ detectModuleNotFoundErrors(lastOp.text) = <<>>
       /\ detectGoroutineErrors(lastOp.text) = <<>>
       /\ processModuleErrors(lastOp.text) = <<>>
       /\ lastOp.outcome # "alerted"

RECURSIVE SumOfCounts(_)
\* the sum of errorCount over the groups
SumOfCounts(groups) ==
  IF groups = <<>> THEN 0 ELSE Head(groups).errorCount + SumOfCounts(Tail(groups))

\* the groups a record belongs to: those of its module name, or of its error type
GroupsOf(groups, record, type) ==
  {g \in 1..Len(groups) :
     /\ groups[g].type = type
     /\ IF type = "module" THEN groups[g].moduleName = record.moduleName
        ELSE groups[g].primaryError.errorType = record.errorType}

\* C30: processModuleErrors puts every detected record into exactly one
\* group: totalErrorCount is the number of detected records and the sum of
\* errorCount over the groups returned.
C30_EveryRecordInOneGroup ==
  lastOp.op = "executeCommand"
    => /\ totalErrorCount(lastOp.text)
            = Len(detectModuleNotFoundErrors(lastOp.text)) + Len(detectGoroutineErrors(lastOp.text))
       /\ SumOfCounts(processModuleErrors(lastOp.text)) = totalErrorCount(lastOp.text)
       /\ \A i \in 1..Len(detectModuleNotFoundErrors(lastOp.text)) :
            Cardinality(GroupsOf(processModuleErrors(lastOp.text),
                                 detectModuleNotFoundErrors(lastOp.text)[i], "module")) = 1
       /\ \A i \in 1..Len(detectGoroutineErrors(lastOp.text)) :
            Cardinality(GroupsOf(processModuleErrors(lastOp.text),
                                 detectGoroutineErrors(lastOp.text)[i], "goroutine")) = 1

\* a command whose output holds more records than groups, and several groups
C30_Witness ==
  /\ lastOp.op = "executeCommand"
  /\ Len(processModuleErrors(lastOp.text)) >= 2
  /\ totalErrorCount(lastOp.text) > Len(processModuleErrors(lastOp.text))
  /\ \E g \in 1..Len(processModuleErrors(lastOp.text)) :
       processModuleErrors(lastOp.text)[g].errorCount >= 2

(***************************************************************************)
(* Properties of the chat alert component                                  *)
(***************************************************************************)
\* C24: a bundler syntax error [[plugin:<tool>] <file>: <message>
\* (<line>:<col>)] is recognised whatever the tool name is: the content
\* "[[plugin:x:react-babel] /home/p/App.tsx: Unterminated template. (154:3)]"
\* yields a result with file /home/p/App.tsx, line 154, column 3 and the
\* message of the unterminated template.
C24_SyntaxErrorOfAnyTool ==
  lastOp.op = "ChatAlert"
    => /\ SyntaxErrorsAt(lastOp.text, PluginTags, MessageTokens) # {}
            => getPreviewErrorInfo(lastOp.text) # NoPreviewError
       /\ lastOp.text = <<"[[plugin:x:react-babel]", "/home/p/App.tsx:",
                          "Unterminated template.", "(154:3)">>
            => /\ getPreviewErrorInfo(lastOp.text).filePath = "/home/p/App.tsx"
               /\ getPreviewErrorInfo(lastOp.text).line = 154
               /\ getPreviewErrorInfo(lastOp.text).column = 3
               /\ getPreviewErrorInfo(lastOp.text).errorMessage = "Unterminated template"
               /\ lastOp.outcome = "preview"

(***************************************************************************)
(* Further properties of the alert store                                   *)
(***************************************************************************)
\* C26: currentAlert is the most recently inserted alert that is still in
\* the active set, and undefined exactly when the active set is empty; right
\* after createAlert has inserted an alert, currentAlert is that alert.
C26_CurrentAlertIsNewestActive ==
  /\ (currentAlert(activeAlerts) = NoAlert) <=> (activeAlerts = <<>>)
  /\ \A i \in 1..Len(activeAlerts) : activeAlerts[i].seq <= currentAlert(activeAlerts).seq
  /\ (lastOp.op = "createAlert" /\ lastOp.outcome = "inserted")
       => currentAlert(activeAlerts) = lastOp.alert

\* a full active set into which an alert has just been put in place of another
C26_Witness ==
  /\ lastOp.op = "createAlert"
  /\ lastOp.outcome = "inserted"
  /\ Len(activeAlerts) = maxActiveAlerts
  /\ created > maxActiveAlerts
  /\ currentAlert(activeAlerts).seq = created

\* C27: createAlert fills in a missing id and a missing timestamp, defaults a
\* missing severity to error and a missing actionable to true, and leaves
\* every value the caller supplied (an id, a timestamp, a severity, an
\* actionable, true or false) as it is in the created alert.
C27_DefaultsAndSuppliedValues ==
  lastOp.op = "createAlert"
    => /\ lastOp.alertData.id = Undefined => lastOp.alert.id = uuidv4(lastOp.alert.seq)
       /\ lastOp.alertData.timestamp = Undefined => lastOp.alert.timestamp = now
       /\ lastOp.alertData.severity = NoSeverity => lastOp.alert.severity = "error"
       /\ lastOp.alertData.actionable = Missing => lastOp.alert.actionable = TRUE
       /\ lastOp.alertData.id # Undefined => lastOp.alert.id = lastOp.alertData.id
       /\ lastOp.alertData.timestamp # Undefined
            => lastOp.alert.timestamp = lastOp.alertData.timestamp
       /\ lastOp.alertData.severity # NoSeverity
            => lastOp.alert.severity = lastOp.alertData.severity
       /\ lastOp.alertData.actionable # Missing
            => lastOp.alert.actionable = lastOp.alertData.actionable[1]
       /\ lastOp.alert.type = lastOp.alertData.type
       /\ lastOp.alert.moduleName = lastOp.alertData.moduleName

\* C28: alert timestamps are monotonic in creation order: an alert created
\* later never has a smaller timestamp than one created earlier, so History,
\* read from newest to oldest, has non-increasing timestamps (and the active
\* set, in insertion order, non-decreasing ones).
C28_TimestampsMonotonic ==
  /\ \A i, j \in 1..Len(alertHistory) :
       i < j => alertHistory[i].timestamp >= alertHistory[j].timestamp
  /\ \A i, j \in 1..Len(activeAlerts) :
       i < j => activeAlerts[i].timestamp <= activeAlerts[j].timestamp

(***************************************************************************)
(* Further properties of the dedup caches                                  *)
(***************************************************************************)
\* the keys both maps hold
KeysOfBoth(before, after) ==
  {before[i][1] : i \in 1..Len(before)} \cap {after[i][1] : i \in 1..Len(after)}

\* C29: for every key of every dedup cache the stored time never decreases:
\* an entry is only ever overwritten with a later or equal time.
C29_CacheTimesNeverDecrease ==
  [][/\ \A k \in KeysOfBoth(lastProcessedErrors, lastProcessedErrors') :
          MapGet(lastProcessedErrors', k) >= MapGet(lastProcessedErrors, k)
     /\ \A k \in KeysOfBoth(moduleErrorCache, moduleErrorCache') :
          MapGet(moduleErrorCache', k) >= MapGet(moduleErrorCache, k)
     /\ \A k \in KeysOfBoth(recentModuleErrors, recentModuleErrors') :
          MapGet(recentModuleErrors', k) >= MapGet(recentModuleErrors, k)
     /\ \A k \in KeysOfBoth(errorContextCache, errorContextCache') :
          /\ MapGet(errorContextCache', k).lastSeen >= MapGet(errorContextCache, k).lastSeen
          /\ MapGet(errorContextCache', k).firstSeen >= MapGet(errorContextCache, k).firstSeen
    ]_vars

\* every cache holds an entry that has been written a second time, at a
\* later time than the first, and a later occurrence has been suppressed
C29_Witness ==
  /\ lastOp.op = "processConsoleErrors"
  /\ lastOp.outcome = "module-duplicate"
  /\ \E i \in 1..Len(errorContextCache) :
       /\ errorContextCache[i][2].firstSeen < errorContextCache[i][2].lastSeen
       /\ errorContextCache[i][2].lastSeen = now
       /\ MapHas(moduleErrorCache, errorContextCache[i][1])
       /\ MapGet(moduleErrorCache, errorContextCache[i][1]) > errorContextCache[i][2].firstSeen
       /\ MapGet(moduleErrorCache, errorContextCache[i][1]) < now
  /\ \E i \in 1..Len(lastProcessedErrors) : lastProcessedErrors[i][2] > 0
  /\ \E i \in 1..Len(recentModuleErrors) : recentModuleErrors[i][2] > 0

\* C31: the convenience constructors give their alerts fixed fields:
\* createTerminalErrorAlert type error, source terminal, severity error and
\* a suggested action; createPreviewErrorAlert type error, source preview,
\* severity error and a suggested action; createSystemAlert type system,
\* source system, actionable false and the severity the caller gave.
C31_ConstructorsFixFields ==
  /\ lastOp.op = "createTerminalErrorAlert"
       => /\ lastOp.alert.type = "error" /\ lastOp.alert.source = "terminal"
          /\ lastOp.alert.severity = "error" /\ lastOp.alert.suggestedAction # Missing
  /\ lastOp.op = "createPreviewErrorAlert"
       => /\ lastOp.alert.type = "error" /\ lastOp.alert.source = "preview"
          /\ lastOp.alert.severity = "error" /\ lastOp.alert.suggestedAction # Missing
  /\ lastOp.op = "createSystemAlert"
       => /\ lastOp.alert.type = "system" /\ lastOp.alert.source = "system"
          /\ lastOp.alert.actionable = FALSE
          /\ lastOp.alert.severity = lastOp.alertData.severity
  /\ lastOp.op \in {"createTerminalErrorAlert", "createPreviewErrorAlert", "createSystemAlert"}
       => alertHistory[1] = lastOp.alert

\* alerts of all three constructors are in History, the system alert a
\* warning created last and active
C31_Witness ==
  /\ lastOp.op = "createSystemAlert"
  /\ lastOp.alert.severity = "warning"
  /\ \E i \in 1..Len(alertHistory) :
       alertHistory[i].source = "terminal" /\ alertHistory[i].suggestedAction # Missing
  /\ \E i \in 1..Len(alertHistory) :
       alertHistory[i].source = "preview" /\ alertHistory[i].suggestedAction # Missing
  /\ currentAlert(activeAlerts) = lastOp.alert

\* the place of a severity in the order critical > error > warning > info
SeverityOrder(severity) ==
  CASE severity = "critical" -> 3
    [] severity = "error" -> 2
    [] severity = "warning" -> 1
    [] OTHER -> 0

\* createAlert has taken the alert out of a full active set in this step
RemovedForRoom(alert) ==
  /\ lastOp'.op = "createAlert"
  /\ Len(activeAlerts) = maxActiveAlerts
  /\ \E i \in 1..Len(activeAlerts) : activeAlerts[i] = alert
  /\ \A i \in 1..Len(activeAlerts') : activeAlerts'[i].seq # alert.seq

\* C32: eviction follows the order critical > error > warning > info: when
\* createAlert at capacity removes an active alert to make room, the removed
\* alert's severity is never higher than the new alert's.
C32_EvictedNeverHigherThanNew ==
  [][\A i \in 1..Len(activeAlerts) :
       RemovedForRoom(activeAlerts[i])
         => SeverityOrder(activeAlerts[i].severity) <= SeverityOrder(lastOp'.alert.severity)]_vars

\* C32, amended: when createAlert at capacity removes an active alert to
\* make room, the removed alert is critical only if the new alert is
\* critical; a non-critical alert is removed whatever the new alert's
\* severity is.
C32_CriticalEvictedOnlyForCritical ==
  [][\A i \in 1..Len(activeAlerts) :
       RemovedForRoom(activeAlerts[i])
         => (activeAlerts[i].severity = "critical" => lastOp'.alert.severity = "critical")]_vars

\* a critical alert has just taken the place of a critical one, and an
\* alert of lower severity has been put into History only
C32_Witness ==
  /\ lastOp.op = "createAlert"
  /\ lastOp.outcome = "inserted"
  /\ lastOp.alert.severity = "critical"
  /\ Len(activeAlerts) = maxActiveAlerts
  /\ \A i \in 1..Len(activeAlerts) : activeAlerts[i].severity = "critical"
  /\ \E h \in 1..Len(alertHistory) :
       /\ alertHistory[h].severity = "critical"
       /\ \A i \in 1..Len(activeAlerts) : activeAlerts[i].seq # alertHistory[h].seq

(***************************************************************************)
(* Further properties of the pipeline                                      *)
(***************************************************************************)
\* no dedup cache holds an entry for the text, and no active alert carries
\* the module name of one of its groups
NothingKnownOf(text) ==
  /\ ~MapHas(lastProcessedErrors, errorSignature(text))
  /\ ~MapHas(moduleErrorCache, moduleNameMatch(text))
  /\ ~MapHas(recentModuleErrors, Slice(text, SignatureLen))
  /\ \A g \in 1..Len(processModuleErrors(text)) :
       processModuleErrors(text)[g].moduleName \notin ActiveModuleNames(activeAlerts)

\* C33: a chunk from which the classifier produces at least one group, given
\* to the pipeline entry point when no dedup entry and no active alert
\* exists for its key, adds one alert per group to the alert store.
C33_OneAlertPerGroup ==
  [][(/\ lastOp'.op = "processConsoleErrors"
      /\ processModuleErrors(lastOp'.text) # <<>>
      /\ NothingKnownOf(lastOp'.text))
       => /\ created' = created + Len(processModuleErrors(lastOp'.text))
          /\ \A g \in 1..Len(processModuleErrors(lastOp'.text)) :
               \E a \in BuiltByStep :
                 a.moduleName = processModuleErrors(lastOp'.text)[g].moduleName]_vars

\* C34: after any sequence of createModuleErrorAlerts calls the active set
\* never holds two alerts of type module-error that carry the same module
\* name, also when one batch yields several groups.
C34_NoTwoActiveForOneModule ==
  \A i, j \in 1..Len(activeAlerts) :
    (/\ i < j
     /\ activeAlerts[i].type = "module-error"
     /\ activeAlerts[j].type = "module-error")
      => activeAlerts[i].moduleName # activeAlerts[j].moduleName

(***************************************************************************)
(* Further properties of the preview host                                  *)
(***************************************************************************)
\* C35: every chunk handed to the debounced error processor is eventually
\* classified: a chunk that arrives while another one is pending makes
\* neither chunk's text get lost.  (The handle of the n-th chunk is n.)
C35_EveryChunkEventuallyClassified ==
  \A h \in 1..MaxMessages :
    (lastOp.op = "preview-message" /\ lastOp.outcome = "debounced" /\ lastOp.alertId = h)
      ~> (lastOp.op = "errorProcessingTimeout" /\ lastOp.alertId = h)

\* C36: a suppressed occurrence leaves both time-keyed tiers as they were:
\* the windows are measured from the last admitted occurrence, so an
\* occurrence that arrives at least 5 s after the last admitted occurrence
\* of its module (the time the module tier holds) is admitted, whatever
\* suppressed repeats came in between.
C36_WindowsCountFromLastAdmission ==
  [][ConsoleStep
     => (/\ lastOp'.outcome \in {"module-duplicate", "signature-duplicate"}
              => (/\ lastProcessedErrors' = lastProcessedErrors
                  /\ moduleErrorCache' = moduleErrorCache)
         /\ (/\ StepModule # ""
             /\ MapHas(moduleErrorCache, StepModule)
             /\ now >= MapGet(moduleErrorCache, StepModule) + ModuleWindowMs)
              => (/\ lastOp'.outcome = "admitted"
                  /\ MapGet(moduleErrorCache', StepModule) = now
                  /\ MapGet(lastProcessedErrors', errorSignature(lastOp'.text)) = now))]_vars

\* a module has been admitted again after two or more suppressed repeats,
\* the last of them less than 5 s ago
C36_Witness ==
  /\ lastOp.op = "processConsoleErrors"
  /\ lastOp.outcome = "admitted"
  /\ moduleNameMatch(lastOp.text) # ""
  /\ \E i \in 1..Len(errorContextCache) :
       /\ errorContextCache[i][1] = moduleNameMatch(lastOp.text)
       /\ errorContextCache[i][2].count >= 4
       /\ errorContextCache[i][2].firstSeen + ModuleWindowMs = now

\* C37: right after processConsoleErrors has admitted an occurrence of
\* module M, both time-keyed tiers hold M's key with the admission time and
\* the context cache holds an accumulator for M, also when the same call
\* compacts a cache and many entries share a timestamp or a count.
C37_AdmittedKeyIsHeld ==
  (/\ lastOp.op = "processConsoleErrors"
   /\ lastOp.outcome = "admitted"
   /\ moduleNameMatch(lastOp.text) # "")
    => /\ MapHas(moduleErrorCache, moduleNameMatch(lastOp.text))
       /\ MapGet(moduleErrorCache, moduleNameMatch(lastOp.text)) = now
       /\ MapHas(lastProcessedErrors, errorSignature(lastOp.text))
       /\ MapGet(lastProcessedErrors, errorSignature(lastOp.text)) = now
       /\ MapHas(errorContextCache, moduleNameMatch(lastOp.text))

(***************************************************************************)
(* Further properties of the shell                                         *)
(***************************************************************************)
ChunksOf(handing) == {accumulatedOutput[i] : i \in handing.from..handing.to}

\* C38: during executeCommand the periodic error detector hands each portion
\* of the terminal output to processConsoleErrors at most once, and only
\* output of the command that is executing, never output accumulated from
\* earlier commands.
C38_DetectorHandsCurrentOutputOnce ==
  /\ \A k \in 1..Len(handedOver) :
       \A chunk \in ChunksOf(handedOver[k]) : chunk.command \in {0, handedOver[k].command}
  /\ \A k \in 1..Len(handedOver) : \A l \in 1..Len(handedOver) :
       k # l => (handedOver[k].from..handedOver[k].to)
                  \cap (handedOver[l].from..handedOver[l].to) = {}

(***************************************************************************)
(* Further properties of the atom's values                                 *)
(***************************************************************************)
\* C39: an active-set array that was delivered to a subscriber or returned by
\* activeAlerts.get() is never modified afterwards: every change to the
\* active set is published as a new array, so the array the atom held before
\* a createAlert call still shows, after the call, the alerts it was
\* delivered with.
C39_DeliveredArrayNeverModified ==
  [][lastOp'.op = "createAlert"
       => currentAlertsAfter(activeAlerts, lastOp'.alert) = activeAlerts]_vars

(***************************************************************************)
(* Further properties of the component                                     *)
(***************************************************************************)
\* C40: an info alert shown by ChatAlert is cleared from the active set about
\* 5 seconds after it first appeared (the 5 s of the timer and the 300 ms of
\* the dismissal), whatever alerts are added to or removed from the active
\* set in the meantime: no info alert is active later than that.
C40_InfoDismissedAfterFiveSeconds ==
  \A i \in 1..Len(activeAlerts) :
    (activeAlerts[i].severity = "info" /\ MapHas(firstShown, activeAlerts[i].id))
      => now <= MapGet(firstShown, activeAlerts[i].id) + AutoDismissMs + DismissAnimationMs
====
